---- MODULE Spec2Model ----
(***************************************************************************)
(* Model of the exam-problem collection.  First the normalizer passes:     *)
(*   add_problem_number_and_clean.process_file   (number extraction)       *)
(*   reorder_problem_number_after_exam_year.process_file (key reordering)  *)
(*   normalize_university_labels.normalize_one   (label canonicalization)  *)
(*   assign_fields.add_fields_to_yaml / assign_fields (fields merge)       *)
(*                                                                         *)
(* A stored document is the text of one .qmd file.  A text is modelled by  *)
(* the list str.splitlines() returns plus whether it ends with a newline.  *)
(* A line is a sequence of symbols.  A symbol is one character ("sp" is    *)
(* the ASCII space, "fsp" the full-width space U+3000, "q" the double      *)
(* quote, "a" the apostrophe, "0".."9" the ASCII digits, "fw0".."fw9" the  *)
(* full-width digits) or a word that no pattern of the code looks into     *)
(* ("title", "01_tokyo", "Prove", ...).  The delimiter "---" is one symbol.*)
(* The display labels of UNIVERSITY_LABELS are written in ASCII            *)
(* ("Tokyo-daigaku" stands for the kanji label of 01_tokyo).               *)
(*                                                                         *)
(* Then the collection the web application and the scripts share:          *)
(*   archive_import.import_archive   (TeX archive -> problems/*.qmd)       *)
(*   app._load_problem_index / get_problem_index / search (the index)      *)
(*   app.upload / update_meta / solve   (the mutations of the web app)     *)
(*   solver._strip_solution_heading                                        *)
(* archive is the TeX archive, problems the files of problems/ by stem,    *)
(* solutions the stems of the files of solutions/, cache the module-level  *)
(* _problem_index_cache of the running application, and out what the last *)
(* operation on the collection reported or returned.                       *)
(*                                                                         *)
(* Last the components that are checked on their own:                      *)
(*   solver.build_handout_qmd, archive_import.extract_document_body,       *)
(*   the wrappers of the external model (classifier, solver), the loops of *)
(*   the batch scripts, and request handlers running interleaved.          *)
(* job is the state of such a component: its inputs, its position and what *)
(* it returned.                                                            *)
(***************************************************************************)
EXTENDS Integers, Sequences, FiniteSets, TLC

VARIABLES text, before, op, ret, arg,
          archive, problems, solutions, cache, out, job

docvars == <<text, before, ret, arg>>

colvars == <<archive, problems, solutions, cache, out, job>>

vars ==
    <<text, before, op, ret, arg, archive, problems, solutions, cache, out, job>>

\* a directory without files, and the value None (an index that is not
\* None is Some(index), and so is a year)
NoFiles == [f \in {} |-> f]

None == <<>>

\* F of the value of x, the value computed once
With(x, F(_)) == CHOOSE r \in {F(v) : v \in {x}} : TRUE

\* a value that may be None: None, or the value in a tuple of one
Some(x) == <<x>>

----------------------------------------------------------------------------
(* Symbols and the str methods the passes use.                             *)

AsciiDigits == {"0", "1", "2", "3", "4", "5", "6", "7", "8", "9"}

FullWidthDigits ==
    {"fw0", "fw1", "fw2", "fw3", "fw4", "fw5", "fw6", "fw7", "fw8", "fw9"}

\* str.strip() / str.lstrip() without argument and the regex class \s:
\* Unicode whitespace, which holds U+3000 as well as the ASCII space.
IsSpace(c) == c \in {"sp", "fsp"}

\* the digit class of number_line_re, ASCII and full-width
IsDigit(c) == c \in AsciiDigits \cup FullWidthDigits

RECURSIVE LStripSet(_, _)
LStripSet(s, cs) ==
    IF s # <<>> /\ Head(s) \in cs THEN LStripSet(Tail(s), cs) ELSE s

RECURSIVE RStripSet(_, _)
RStripSet(s, cs) ==
    IF s # <<>> /\ s[Len(s)] \in cs
    THEN RStripSet(SubSeq(s, 1, Len(s) - 1), cs) ELSE s

StripSet(s, cs) == RStripSet(LStripSet(s, cs), cs)

Whitespace == {"sp", "fsp"}

lstrip(s) == LStripSet(s, Whitespace)

strip(s) == StripSet(s, Whitespace)

startswith(s, p) == Len(s) >= Len(p) /\ SubSeq(s, 1, Len(p)) = p

\* list.index(x, start): the first position >= start holding x, 0 for
\* ValueError (positions are 1-based here).
RECURSIVE index(_, _, _)
index(lines, x, start) ==
    IF start > Len(lines) THEN 0
    ELSE IF lines[start] = x THEN start
    ELSE index(lines, x, start + 1)

\* lines[i:j] of Python for 1-based inclusive positions i..j
Slice(s, i, j) == IF i > j THEN <<>> ELSE SubSeq(s, i, j)

Delim == <<"---">>

\* path.write_text("\n".join(new_lines) + "\n")
Written(lines) == [lines |-> lines, nl |-> TRUE]

----------------------------------------------------------------------------
(* add_problem_number_and_clean.py                                         *)

\* a conversion that leaves the full-width digits as they are
normalize_digits_broken(s) == s

normalize_digits(s) ==
    [i \in 1..Len(s) |->
        CASE s[i] = "fw0" -> "0" [] s[i] = "fw1" -> "1"
          [] s[i] = "fw2" -> "2" [] s[i] = "fw3" -> "3"
          [] s[i] = "fw4" -> "4" [] s[i] = "fw5" -> "5"
          [] s[i] = "fw6" -> "6" [] s[i] = "fw7" -> "7"
          [] s[i] = "fw8" -> "8" [] s[i] = "fw9" -> "9"
          [] OTHER -> s[i]]

RECURSIVE DigitRun(_)
DigitRun(s) ==
    IF s # <<>> /\ IsDigit(Head(s)) THEN <<Head(s)>> \o DigitRun(Tail(s))
    ELSE <<>>

\* the pattern without its tail (?:\s+.*)?$ : any line that starts with digits
number_line_re_loose(line) == DigitRun(lstrip(line))

\* number_line_re.match(line): group 1, or <<>> when the line does not match
\* ^\s*([0-9 fw0-fw9]+)(?:\s+.*)?$ : after the leading whitespace a non-empty
\* digit run, then the end of the line or whitespace and anything.
number_line_re(line) ==
    LET s    == lstrip(line)
        run  == DigitRun(s)
        rest == Slice(s, Len(run) + 1, Len(s))
    IN  IF run # <<>> /\ (rest = <<>> \/ IsSpace(Head(rest)))
        THEN run ELSE <<>>

\* the while loops of lines 39-41 and 82-84: the first position >= idx of a
\* line that is not blank, Len + 1 if there is none
RECURSIVE FirstNonBlank(_, _)
FirstNonBlank(lines, idx) ==
    IF idx <= Len(lines) /\ strip(lines[idx]) = <<>>
    THEN FirstNonBlank(lines, idx + 1) ELSE idx

IsProblemNumberLine(l) == startswith(lstrip(l), <<"problem_number", ":">>)

ProblemNumberLine(number_ascii) ==
    <<"problem_number", ":", "sp">> \o number_ascii

\* a pass that adds the new number and keeps the old lines
OverwriteNumber_appending(yaml_lines, number_ascii) ==
    Append(yaml_lines, ProblemNumberLine(number_ascii))

\* lines 58-64: every problem_number line is overwritten
RECURSIVE OverwriteNumber(_, _)
OverwriteNumber(yaml_lines, number_ascii) ==
    IF yaml_lines = <<>> THEN <<>>
    ELSE <<IF IsProblemNumberLine(Head(yaml_lines))
           THEN ProblemNumberLine(number_ascii) ELSE Head(yaml_lines)>>
         \o OverwriteNumber(Tail(yaml_lines), number_ascii)

\* lines 66-76: inserted after the first problem_id line, else appended
RECURSIVE InsertNumber(_, _, _)
InsertNumber(yaml_lines, number_ascii, inserted) ==
    IF yaml_lines = <<>>
    THEN IF inserted THEN <<>> ELSE <<ProblemNumberLine(number_ascii)>>
    ELSE LET line == Head(yaml_lines)
             here == startswith(lstrip(line), <<"problem_id", ":">>)
                     /\ ~inserted
         IN  <<line>>
             \o (IF here THEN <<ProblemNumberLine(number_ascii)>> ELSE <<>>)
             \o InsertNumber(Tail(yaml_lines), number_ascii, inserted \/ here)

\* lines 81-86: the next non-empty line loses its leading U+3000 run
StripFullWidthSpace(new_body, idx) ==
    LET j == FirstNonBlank(new_body, idx)
    IN  IF j <= Len(new_body) /\ startswith(new_body[j], <<"fsp">>)
        THEN [new_body EXCEPT ![j] = LStripSet(new_body[j], {"fsp"})]
        ELSE new_body

\* process_file of add_problem_number_and_clean.py: the value returned and
\* the text stored afterwards
number_process_file(t) ==
    LET lines      == t.lines
        first      == index(lines, Delim, 1)
        second     == IF first = 0 THEN 0 ELSE index(lines, Delim, first + 1)
        yaml_lines == Slice(lines, first + 1, second - 1)
        body_lines == Slice(lines, second + 1, Len(lines))
        idx        == FirstNonBlank(body_lines, 1)
        raw_number == IF idx <= Len(body_lines)
                      THEN number_line_re(body_lines[idx]) ELSE <<>>
        number_ascii == normalize_digits(raw_number)
        has_problem_number ==
            \E i \in 1..Len(yaml_lines) : IsProblemNumberLine(yaml_lines[i])
        new_yaml_lines ==
            IF has_problem_number
            THEN OverwriteNumber(yaml_lines, number_ascii)
            ELSE InsertNumber(yaml_lines, number_ascii, FALSE)
        new_body == StripFullWidthSpace(
                        Slice(body_lines, 1, idx - 1)
                            \o Slice(body_lines, idx + 1, Len(body_lines)),
                        idx)
    IN  IF lines = <<>> \/ first = 0 \/ second = 0      \* [SKIP] no YAML
           \/ idx > Len(body_lines)                      \* [SKIP] empty body
           \/ raw_number = <<>>                          \* [SKIP] no number
        THEN [ret |-> FALSE, text |-> t]
        ELSE [ret |-> TRUE,
              text |-> Written(<<Delim>> \o new_yaml_lines \o <<Delim>>
                               \o new_body)]

----------------------------------------------------------------------------
(* reorder_problem_number_after_exam_year.py                               *)

\* the first position >= i of a line whose lstrip() starts with key, else 0
RECURSIVE FirstKeyLine(_, _, _)
FirstKeyLine(yaml_lines, key, i) ==
    IF i > Len(yaml_lines) THEN 0
    ELSE IF startswith(lstrip(yaml_lines[i]), key) THEN i
    ELSE FirstKeyLine(yaml_lines, key, i + 1)

\* list.pop(i) leaves this list
Pop(s, i) == Slice(s, 1, i - 1) \o Slice(s, i + 1, Len(s))

\* list.insert(i, x) for a 0-based i <= len: x ends up at 1-based i + 1
Insert(s, i, x) == Slice(s, 1, i) \o <<x>> \o Slice(s, i + 1, Len(s))

reorder_process_file(t) ==
    LET lines       == t.lines
        first       == index(lines, Delim, 1)
        second      == IF first = 0 THEN 0 ELSE index(lines, Delim, first + 1)
        yaml_lines  == Slice(lines, first + 1, second - 1)
        problem_idx == FirstKeyLine(yaml_lines, <<"problem_number", ":">>, 1)
        exam_idx    == FirstKeyLine(yaml_lines, <<"exam_year", ":">>, 1)
        line_to_move == yaml_lines[problem_idx]
        popped      == Pop(yaml_lines, problem_idx)
        exam_again  == FirstKeyLine(popped, <<"exam_year", ":">>, 1)
        moved       == IF exam_again = 0 THEN Append(popped, line_to_move)
                       ELSE Insert(popped, exam_again, line_to_move)
    IN  IF lines = <<>> \/ first = 0 \/ second = 0
           \/ problem_idx = 0 \/ exam_idx = 0
           \/ problem_idx = exam_idx + 1
        THEN [ret |-> FALSE, text |-> t]
        ELSE [ret |-> TRUE,
              text |-> Written(Slice(lines, 1, first) \o moved
                               \o Slice(lines, second, Len(lines)))]

----------------------------------------------------------------------------
(* normalize_university_labels.py, with UNIVERSITY_LABELS of               *)
(* archive_import.py                                                       *)

UNIVERSITY_LABELS ==
    "01_tokyo" :> "Tokyo-daigaku" @@ "02_kyoto" :> "Kyoto-daigaku"
    @@ "03_hokudai" :> "Hokkaido-daigaku" @@ "04_tohoku" :> "Tohoku-daigaku"
    @@ "05_nagoya" :> "Nagoya-daigaku" @@ "06_osaka" :> "Osaka-daigaku"
    @@ "07_kyushu" :> "Kyushu-daigaku" @@ "08_titech" :> "Tokyo-kagaku-daigaku"

\* the first line at a position >= i whose strip() is the delimiter, else 0
RECURSIVE FirstDelimStripped(_, _)
FirstDelimStripped(lines, i) ==
    IF i > Len(lines) THEN 0
    ELSE IF strip(lines[i]) = Delim THEN i
    ELSE FirstDelimStripped(lines, i + 1)

\* str.replace(pat, rep, 1)
RECURSIVE ReplaceFirst(_, _, _)
ReplaceFirst(line, pat, rep) ==
    IF Len(line) < Len(pat) THEN line
    ELSE IF startswith(line, pat)
         THEN rep \o Slice(line, Len(pat) + 1, Len(line))
    ELSE <<Head(line)>> \o ReplaceFirst(Tail(line), pat, rep)

\* str.partition(":"): the part before the first colon and the part after it
\* (the caller has seen that the line holds one)
RECURSIVE BeforeColon(_)
BeforeColon(line) ==
    IF line = <<>> \/ Head(line) = ":" THEN <<>>
    ELSE <<Head(line)>> \o BeforeColon(Tail(line))

AfterColon(line) == Slice(line, Len(BeforeColon(line)) + 2, Len(line))

\* lines 42-52: `title::` / `university::` at the start of a line lose a colon
FixDoubleColon(line) ==
    LET stripped == lstrip(line)
        l1 == IF startswith(stripped, <<"title", ":", ":">>)
              THEN ReplaceFirst(line, <<"title", ":", ":">>, <<"title", ":">>)
              ELSE line
    IN  IF startswith(stripped, <<"university", ":", ":">>)
        THEN ReplaceFirst(l1, <<"university", ":", ":">>, <<"university", ":">>)
        ELSE l1

\* f"{key}:{sep} \"{value}\"" (lines 66 and 87), sep being the ":" that
\* partition returned
RewrittenLine(key, value) == key \o <<":", ":", "sp", "q">> \o value \o <<"q">>

\* lines 57-67, for one line
UniversityLine(line) ==
    LET val == AfterColon(line)
        raw == StripSet(StripSet(strip(val), {"q"}), {"a"})
    IN  IF startswith(strip(line), <<"university", ":">>)
           /\ Len(raw) = 1 /\ raw[1] \in DOMAIN UNIVERSITY_LABELS
        THEN RewrittenLine(BeforeColon(line), <<UNIVERSITY_LABELS[raw[1]]>>)
        ELSE line

\* lines 70-89, for the first title line
TitleLine(line) ==
    LET v     == strip(AfterColon(line))
        inner == Slice(v, 2, Len(v) - 1)
    IN  IF Len(v) >= 2 /\ v[1] = "q" /\ v[Len(v)] = "q"
           /\ Len(inner) >= 2 /\ inner[1] \in DOMAIN UNIVERSITY_LABELS
           /\ inner[2] = "sp"
        THEN RewrittenLine(BeforeColon(line),
                           <<UNIVERSITY_LABELS[inner[1]]>> \o Tail(inner))
        ELSE line

\* the first position of a line whose strip() starts with `title:`, else 0
RECURSIVE FirstTitle(_, _)
FirstTitle(yaml_lines, i) ==
    IF i > Len(yaml_lines) THEN 0
    ELSE IF startswith(strip(yaml_lines[i]), <<"title", ":">>) THEN i
    ELSE FirstTitle(yaml_lines, i + 1)

normalize_one(t) ==
    LET lines      == t.lines
        end        == FirstDelimStripped(lines, 2)
        yaml_lines == Slice(lines, 2, end - 1)
        body_lines == Slice(lines, end + 1, Len(lines))
        fixed      == [i \in 1..Len(yaml_lines) |-> FixDoubleColon(yaml_lines[i])]
        univ       == [i \in 1..Len(fixed) |-> UniversityLine(fixed[i])]
        ti         == FirstTitle(univ, 1)
        titled     == IF ti = 0 THEN univ
                      ELSE [univ EXCEPT ![ti] = TitleLine(univ[ti])]
        changed    == fixed # yaml_lines \/ univ # fixed \/ titled # univ
    IN  IF lines = <<>> \/ strip(lines[1]) # Delim \/ end = 0 \/ ~changed
        THEN [ret |-> FALSE, text |-> t]
        ELSE [ret |-> TRUE,
              text |-> Written(<<Delim>> \o titled \o <<Delim>> \o body_lines)]

----------------------------------------------------------------------------
(* assign_fields.py and the part of classifier.py it rests on              *)

\* taxonomy.FIELDS, the closed vocabulary of classification tags
FIELDS == {"sekibun", "suuretsu"}

\* classifier.py lines 89-91
RECURSIVE KnownTags(_)
KnownTags(result) ==
    IF result = <<>> THEN <<>>
    ELSE (IF Head(result) \in FIELDS THEN <<Head(result)>> ELSE <<>>)
         \o KnownTags(Tail(result))

\* _strip_yaml_header(qmd).strip() is empty (classifier.py lines 34-43, 52)
BodyIsEmpty(t) ==
    LET lines == t.lines
        i     == FirstDelimStripped(lines, 2)
        body  == IF lines = <<>> \/ strip(lines[1]) # Delim \/ i = 0
                 THEN lines ELSE Slice(lines, i + 1, Len(lines))
    IN  \A k \in 1..Len(body) : strip(body[k]) = <<>>

\* the lists classify_problem_fields can return for the stored text, the
\* answer of the external model being any of `answers`
classify_problem_fields(t, answers) ==
    IF BodyIsEmpty(t) THEN {<<>>} ELSE {KnownTags(r) : r \in answers}

FieldLines(fields) ==
    [i \in 1..Len(fields) |-> <<"sp", "sp", "-", "sp", fields[i]>>]

add_fields_to_yaml(t, fields) ==
    LET lines     == t.lines
        hasFields == \E i \in 1..Len(lines) :
                        startswith(strip(lines[i]), <<"fields", ":">>)
        end       == FirstDelimStripped(lines, 2)
        header    == Slice(lines, 2, end - 1)
        body      == Slice(lines, end, Len(lines))
        fmt       == FirstKeyLine(header, <<"format", ":">>, 1)
        insert_at == IF fmt = 0 THEN Len(header) ELSE fmt - 1
        new_header == Slice(header, 1, insert_at)
                      \o <<<<"fields", ":">>>> \o FieldLines(fields)
                      \o Slice(header, insert_at + 1, Len(header))
    IN  IF fields = <<>> \/ lines = <<>> \/ strip(lines[1]) # Delim
           \/ hasFields \/ end = 0
        THEN t
        ELSE [lines |-> <<Delim>> \o new_header \o body, nl |-> t.nl]

----------------------------------------------------------------------------
(* The documents the passes are run on.                                    *)

MaxHeader == 2
MaxBody == 1
NumMaxHeader == 2
NumMaxBody == 2
HdrMaxHeader == 3
HdrMaxBody == 1

SeqsUpTo(S, n) == UNION {[1..k -> S] : k \in 0..n}

PnLine == <<"problem_number", ":", "sp", "7">>
EyLine == <<"exam_year", ":", "sp", "2", "0">>
IdLine == <<"problem_id", ":", "sp", "p1">>
UnivCodeLine == <<"university", ":", "sp", "01_tokyo">>
TitleCodeLine == <<"title", ":", "sp", "q", "02_kyoto", "sp", "problem3", "q">>
TitleTypoLine == <<"title", ":", ":", "sp", "q", "problem4", "q">>
FormatLine == <<"format", ":", "sp", "html">>
FieldsLine == <<"fields", ":", "sp", "[", "q", "sekibun", "q", "]">>
IndentedDelim == <<"sp", "---">>
Preface == <<"memo">>

NumberBody  == <<"5">>
NumberBody2 == <<"sp", "fw6", "sp", "old">>
BlankBody   == <<>>
WideBody    == <<"fsp", "fsp", "Prove">>
GluedBody   == <<"5", "x">>
FieldsBody  == <<"fields", ":", "sp", "note">>

HeaderPool == {PnLine, EyLine, IdLine, UnivCodeLine, TitleTypoLine,
               FormatLine, IndentedDelim}
BodyPool == {NumberBody, WideBody, FieldsBody}

NumHeaderPool == {PnLine, EyLine, IdLine}
NumBodyPool == {NumberBody, NumberBody2, BlankBody, WideBody, GluedBody}

HdrHeaderPool == {PnLine, EyLine, UnivCodeLine, TitleCodeLine, TitleTypoLine,
                  FormatLine, FieldsLine}
HdrBodyPool == {NumberBody, FieldsBody}

\* a text as (splitlines(), ends with a newline): without the final newline
\* the last line is not empty
Text(lines, nl) == [lines |-> lines, nl |-> nl]

Documents(hp, bp, mh, mb) ==
    LET H == SeqsUpTo(hp, mh)
        B == SeqsUpTo(bp, mb)
    IN  {Text(<<>>, FALSE)}
        \cup {Text(<<Delim>> \o h \o <<Delim>> \o b, TRUE) : h \in H, b \in B}
        \cup {Text(<<Delim>> \o h \o <<Delim>> \o b, FALSE) :
                 h \in H, b \in {x \in B : x = <<>> \/ x[Len(x)] # <<>>}}
        \cup {Text(<<Preface, Delim>> \o h \o <<Delim>> \o b, TRUE) :
                 h \in H, b \in B}
        \cup {Text(<<IndentedDelim>> \o h \o <<Delim>> \o b, TRUE) :
                 h \in H, b \in B}
        \cup {Text(<<Delim>> \o h \o b, TRUE) : h \in H, b \in B}

\* what the external classifier may answer (classifier.py line 73)
Answers == {<<"unknownTag">>, <<"suuretsu", "unknownTag", "sekibun">>}

----------------------------------------------------------------------------
(* The state machine: one stored document, and one action per pass.        *)
(* before is the text the last pass read, op that pass, ret what it        *)
(* returned, arg the tag list the last fields merge was given.             *)

InitOn(docs) ==
    /\ text \in docs
    /\ before = text
    /\ op = "none"
    /\ ret = FALSE
    /\ arg = <<>>
    /\ archive = {}
    /\ problems = NoFiles
    /\ solutions = {}
    /\ cache = None
    /\ out = None
    /\ job = None

\* add_problem_number_and_clean.main, for one file
NumberExtraction ==
    LET r == number_process_file(text)
    IN  /\ text' = r.text
        /\ before' = text
        /\ op' = "number"
        /\ ret' = r.ret
        /\ arg' = <<>>
        /\ UNCHANGED colvars

\* reorder_problem_number_after_exam_year.main, for one file
KeyReordering ==
    LET r == reorder_process_file(text)
    IN  /\ text' = r.text
        /\ before' = text
        /\ op' = "reorder"
        /\ ret' = r.ret
        /\ arg' = <<>>
        /\ UNCHANGED colvars

\* normalize_all(dry_run=False), for one file
LabelCanonicalization ==
    LET r == normalize_one(text)
    IN  /\ text' = r.text
        /\ before' = text
        /\ op' = "labels"
        /\ ret' = r.ret
        /\ arg' = <<>>
        /\ UNCHANGED colvars

\* assign_fields(dry_run=False), for one file: nothing is written when the
\* classifier returns no tag or add_fields_to_yaml returns its input
FieldsMerge ==
    \E fields \in classify_problem_fields(text, Answers) :
        LET new_text == IF fields = <<>> THEN text
                        ELSE add_fields_to_yaml(text, fields)
        IN  /\ text' = new_text
            /\ before' = text
            /\ op' = "fields"
            /\ ret' = (new_text # text)
            /\ arg' = fields
            /\ UNCHANGED colvars

Next ==
    \/ NumberExtraction
    \/ KeyReordering
    \/ LabelCanonicalization
    \/ FieldsMerge

Init == InitOn(Documents(HeaderPool, BodyPool, MaxHeader, MaxBody))

Spec == Init /\ [][Next]_vars

InitNumber ==
    InitOn(Documents(NumHeaderPool, NumBodyPool, NumMaxHeader, NumMaxBody))

SpecNumber == InitNumber /\ [][Next]_vars

InitHeader ==
    InitOn(Documents(HdrHeaderPool, HdrBodyPool, HdrMaxHeader, HdrMaxBody))

SpecHeader == InitHeader /\ [][Next]_vars

----------------------------------------------------------------------------
(* What the claims speak of: the header boundary of the Header Codec       *)
(* (first line the delimiter, the next delimiter line closes the header),  *)
(* the digit pattern of a number line, and header keys.                    *)

WellFormed(t) ==
    /\ t.lines # <<>>
    /\ t.lines[1] = Delim
    /\ \E i \in 2..Len(t.lines) : t.lines[i] = Delim

Closing(t) ==
    CHOOSE i \in 2..Len(t.lines) :
        /\ t.lines[i] = Delim
        /\ \A k \in 2..(i - 1) : t.lines[k] # Delim

HeaderLines(t) == Slice(t.lines, 2, Closing(t) - 1)

BodyLines(t) == Slice(t.lines, Closing(t) + 1, Len(t.lines))

Blank(line) == \A i \in 1..Len(line) : IsSpace(line[i])

AllBlank(body) == \A i \in 1..Len(body) : Blank(body[i])

\* the position of the first non-blank line of a body that has one
FirstContent(body) ==
    CHOOSE k \in 1..Len(body) :
        ~Blank(body[k]) /\ \A i \in 1..(k - 1) : Blank(body[i])

\* line[i..j] is the digit run of a number line: whitespace before it, and
\* the end of the line or whitespace after it
IsNumberRun(line, i, j) ==
    /\ 1 <= i /\ i <= j /\ j <= Len(line)
    /\ \A k \in 1..(i - 1) : IsSpace(line[k])
    /\ \A k \in i..j : IsDigit(line[k])
    /\ j = Len(line) \/ IsSpace(line[j + 1])

MatchesDigitPattern(line) ==
    \E i, j \in 1..Len(line) : IsNumberRun(line, i, j)

NumberRun(line) ==
    LET ij == CHOOSE ij \in (1..Len(line)) \X (1..Len(line)) :
                  IsNumberRun(line, ij[1], ij[2])
    IN  SubSeq(line, ij[1], ij[2])

AsciiOf == <<"0", "1", "2", "3", "4", "5", "6", "7", "8", "9">>

FullWidthOf ==
    <<"fw0", "fw1", "fw2", "fw3", "fw4", "fw5", "fw6", "fw7", "fw8", "fw9">>

\* digit c written in ASCII
Ascii(c) == AsciiOf[CHOOSE n \in 1..10 : c = AsciiOf[n] \/ c = FullWidthOf[n]]

AsciiRun(run) == [i \in 1..Len(run) |-> Ascii(run[i])]

Keys == {"problem_number", "exam_year", "problem_id", "university", "title",
         "format", "fields"}

\* a header line of key k, as every pass recognizes one
IsKeyLine(line, k) == startswith(lstrip(line), <<k, ":">>)

KeyCount(header, k) ==
    Cardinality({i \in 1..Len(header) : IsKeyLine(header[i], k)})

\* `key: value` with the one-colon separator, the value unquoted
HoldsValue(line, k, value) ==
    /\ startswith(lstrip(line), <<k, ":", "sp">>)
    /\ StripSet(strip(Slice(lstrip(line), 4, Len(lstrip(line)))), {"q"})
           = value

----------------------------------------------------------------------------
(* Number extraction                                                       *)

\* C1: number extraction is idempotent: after a run that succeeded, a
\* second run on its output is a skip and changes neither header nor body.
C1_SecondRunIsSkip ==
    [][(op = "number" /\ ret /\ op' = "number")
        => (ret' = FALSE /\ text' = text)]_vars

NumberCase ==
    /\ op = "number"
    /\ WellFormed(before)
    /\ ~AllBlank(BodyLines(before))
    /\ MatchesDigitPattern(BodyLines(before)[FirstContent(BodyLines(before))])

HeaderHoldsNumber ==
    LET old    == BodyLines(before)
        number == AsciiRun(NumberRun(old[FirstContent(old)]))
        header == HeaderLines(text)
    IN  /\ \E i \in 1..Len(header) : header[i] = ProblemNumberLine(number)
        /\ \A i \in 1..Len(header) :
               IsKeyLine(header[i], "problem_number")
                   => header[i] = ProblemNumberLine(number)

C3_NoNumberIsSkip ==
    (/\ op = "number"
     /\ WellFormed(before)
     /\ \/ AllBlank(BodyLines(before))
        \/ ~MatchesDigitPattern(
               BodyLines(before)[FirstContent(BodyLines(before))]))
    => (ret = FALSE /\ text = before)

\* a body starting with the glued line `5x`, under a header that has a
\* problem_number, was skipped
C3_Witness ==
    /\ op = "number" /\ WellFormed(before) /\ ret = FALSE
    /\ HeaderLines(before) # <<>> /\ HeaderLines(before)[1] = PnLine
    /\ ~AllBlank(BodyLines(before))
    /\ BodyLines(before)[FirstContent(BodyLines(before))] = GluedBody

----------------------------------------------------------------------------
(* Every pass                                                              *)

\* C4: a document whose first line is not the delimiter, or that has no
\* later delimiter line, is headerless for every pass: the pass skips it and
\* the stored text is unchanged.
C4_HeaderlessIsSkipped ==
    (op \in {"number", "reorder", "labels", "fields"} /\ ~WellFormed(before))
    => (ret = FALSE /\ text = before)

----------------------------------------------------------------------------
(* Label canonicalization                                                  *)

\* C5: label canonicalization is idempotent: run on its own output it
\* reports `unchanged` and the text stays the output of the first run.
C5_SecondRunUnchanged ==
    [][(op = "labels" /\ op' = "labels") => (ret' = FALSE /\ text' = text)]_vars

Codes == DOMAIN UNIVERSITY_LABELS

\* `title: "inner"` with the one-colon separator
HoldsTitle(line, inner) ==
    lstrip(line) = <<"title", ":", "sp", "q">> \o inner \o <<"q">>

NamesCode(line) ==
    \/ \E c \in Codes : HoldsValue(line, "university", <<c>>)
    \/ \E c \in Codes : startswith(lstrip(line), <<"title", ":", "sp", "q", c, "sp">>)

\* C6: after one run on a headered document, a university line whose value
\* was an institution code holds the display label, a quoted title starting
\* with `code + space` holds the label and the remainder, and a university
\* or title line that names no code is as it was.
C6_CodesBecomeLabels ==
    (op = "labels" /\ WellFormed(before)) =>
        LET old == HeaderLines(before)
            new == HeaderLines(text)
        IN  /\ Len(new) = Len(old)
            /\ \A i \in 1..Len(old) :
                   /\ \A c \in Codes :
                          HoldsValue(old[i], "university", <<c>>)
                              => HoldsValue(new[i], "university",
                                            <<UNIVERSITY_LABELS[c]>>)
                   /\ \A c \in Codes :
                          HoldsTitle(old[i], <<c, "sp", "problem3">>)
                              => HoldsTitle(new[i], <<UNIVERSITY_LABELS[c],
                                                      "sp", "problem3">>)
                   /\ (/\ \/ startswith(lstrip(old[i]), <<"university", ":", "sp">>)
                          \/ startswith(lstrip(old[i]), <<"title", ":", "sp">>)
                       /\ ~NamesCode(old[i]))
                          => new[i] = old[i]

\* C7: the document label canonicalization writes has no title or
\* university line with the separator `::`.
C7_NoDoubleColonWritten ==
    (op = "labels" /\ ret) =>
        \A i \in 1..Len(text.lines) :
            /\ ~startswith(lstrip(text.lines[i]), <<"title", ":", ":">>)
            /\ ~startswith(lstrip(text.lines[i]), <<"university", ":", ":">>)

----------------------------------------------------------------------------
(* Key reordering                                                          *)

\* C8: key reordering puts problem_number right after exam_year when both
\* are there and not adjacent and touches nothing otherwise; hence, as
\* stated here, a second run right after a run is always a no-op: it
\* returns False and the text stays what the first run left.
C8_SecondRunNoOp ==
    [][(op = "reorder" /\ op' = "reorder")
        => (ret' = FALSE /\ text' = text)]_vars

----------------------------------------------------------------------------
(* Fields merge                                                            *)

\* C9: on a headered document, the fields key is inserted exactly when the
\* header has no fields key and the tag list is not empty; it is inserted
\* right before the format key, or at the end of the header; a document
\* whose header has a fields key is returned unchanged.
C9_InsertedIffNoFieldsKey ==
    (op = "fields" /\ WellFormed(before)) =>
        LET old == HeaderLines(before)
            new == HeaderLines(text)
            inserted == KeyCount(new, "fields") > KeyCount(old, "fields")
        IN  /\ inserted <=> (KeyCount(old, "fields") = 0 /\ arg # <<>>)
            /\ ~inserted => text = before
            /\ inserted =>
                   \E i \in 1..Len(new) :
                       /\ new[i] = <<"fields", ":">>
                       /\ i + Len(arg) <= Len(new)
                       /\ \A n \in 1..Len(arg) :
                              new[i + n] = <<"sp", "sp", "-", "sp", arg[n]>>
                       /\ i + Len(arg) = Len(new)
                          \/ IsKeyLine(new[i + Len(arg) + 1], "format")

----------------------------------------------------------------------------
(* Frame of the passes                                                     *)

\* the header keys a pass is there to write or move
TargetKeys(o) ==
    CASE o = "number"  -> {"problem_number"}
      [] o = "reorder" -> {"problem_number"}
      [] o = "labels"  -> {"university", "title"}
      [] o = "fields"  -> {"fields"}
      [] OTHER         -> {}

\* a header line of a key the pass targets; a `  - tag` item line belongs
\* to the fields list the fields merge writes
Targeted(line, o) ==
    \/ \E k \in TargetKeys(o) : IsKeyLine(line, k)
    \/ o = "fields" /\ startswith(line, <<"sp", "sp", "-", "sp">>)

Untargeted(header, o) == SelectSeq(header, LAMBDA l : ~Targeted(l, o))

\* the body lines number extraction is there to touch: the first
\* non-blank line and the first non-blank line after it; no other pass
\* targets a body line
TargetedBody(body, o) ==
    IF o # "number" \/ AllBlank(body) THEN {}
    ELSE LET i    == FirstContent(body)
             rest == Slice(body, i + 1, Len(body))
         IN  {i} \cup (IF AllBlank(rest) THEN {}
                       ELSE {i + FirstContent(rest)})

\* the lines of a body outside the positions in `gone`, in order
Outside(body, gone) ==
    LET keep == {i \in 1..Len(body) : i \notin gone}
        F[n \in 0..Len(body)] ==
            IF n = 0 THEN <<>>
            ELSE IF n \in keep THEN Append(F[n - 1], body[n]) ELSE F[n - 1]
    IN  F[Len(body)]

\* C11: a pass leaves the header lines of the keys it does not target as
\* they were and in the same order, and leaves every line outside the
\* header unchanged but the body lines it targets; a headerless document
\* has no targeted line at all.
C11_FrameKept ==
    op # "none" =>
        IF WellFormed(before)
        THEN /\ WellFormed(text)
             /\ Untargeted(HeaderLines(text), op)
                    = Untargeted(HeaderLines(before), op)
             /\ \E gone \in SUBSET TargetedBody(BodyLines(text), op) :
                    Outside(BodyLines(text), gone)
                        = Outside(BodyLines(before),
                                  TargetedBody(BodyLines(before), op))
        ELSE text.lines = before.lines

----------------------------------------------------------------------------
(* archive_import.py.  A name (of a directory, of a file, of a problem) is *)
(* a sequence of symbols, as a line is.                                    *)

\* TeXProblem.problem_id: f"{university}-{year}-{stem}"
problem_id(p) == p.university \o <<"-">> \o p.year \o <<"-">> \o p.stem

\* a label property that hands every directory name through
university_label_identity(p) == p.university

\* TeXProblem.university_label: UNIVERSITY_LABELS.get(university, university)
university_label(p) ==
    IF Len(p.university) = 1 /\ p.university[1] \in DOMAIN UNIVERSITY_LABELS
    THEN <<UNIVERSITY_LABELS[p.university[1]]>>
    ELSE p.university

\* tex_path.relative_to(BASE_DIR).as_posix()
rel_tex(p) ==
    <<"archive", "/">> \o p.university \o <<"/">> \o p.year \o <<"/">>
        \o p.stem \o <<".tex">>

\* the same path with the suffix .pdf when that file exists, else ""
rel_pdf(p) ==
    IF p.pdf
    THEN <<"archive", "/">> \o p.university \o <<"/">> \o p.year \o <<"/">>
             \o p.stem \o <<".pdf">>
    ELSE <<>>

rel_page_image(p) ==
    IF p.jpg
    THEN <<"archive", "/">> \o p.university \o <<"/">> \o p.year \o <<"/">>
             \o p.stem \o <<".jpg">>
    ELSE <<>>

\* f"{key}: \"{value}\""
Quoted(key, value) == <<key, ":", "sp", "q">> \o value \o <<"q">>

\* str.rstrip() of a text given by its lines: the blank lines at the end
\* go, and the whitespace at the end of the last line left
RECURSIVE rstrip_lines(_)
rstrip_lines(lines) ==
    IF lines = <<>> THEN <<>>
    ELSE IF strip(lines[Len(lines)]) = <<>>
         THEN rstrip_lines(Slice(lines, 1, Len(lines) - 1))
    ELSE Slice(lines, 1, Len(lines) - 1)
             \o <<RStripSet(lines[Len(lines)], Whitespace)>>

\* build_qmd(problem, body), body given by its lines: the header, the body
\* (one empty line when there is none), and the tail with the rule and the
\* link to the PDF
build_qmd(problem, body) ==
    LET uni_label  == university_label(problem)
        yaml_lines ==
            << Delim,
               Quoted("title", uni_label \o <<"sp">> \o problem.year
                                   \o <<"nen", "sp">> \o problem.stem),
               Quoted("problem_id", problem_id(problem)),
               Quoted("university", uni_label),
               Quoted("exam_year", problem.year),
               Quoted("source_tex", rel_tex(problem)),
               Quoted("pdf_source", rel_pdf(problem)),
               Quoted("page_image", rel_page_image(problem)),
               <<"format", ":">>,
               <<"sp", "sp", "html", ":">>,
               <<"sp", "sp", "sp", "sp", "math", ":", "sp", "mathjax">>,
               Delim >>
        stripped   == rstrip_lines(body)
        body_lines == IF stripped = <<>> THEN << <<>> >> ELSE stripped
        pdf_link   == IF rel_pdf(problem) = <<>> THEN <<>>
                      ELSE << <<"PDF", ":", "sp", "[", "open", "]", "(",
                                "..", "/">> \o rel_pdf(problem) \o <<")">> >>
    IN  Written(yaml_lines \o body_lines \o << <<>>, Delim, <<>> >>
                    \o pdf_link)

\* a loop that does not look whether the target exists
RECURSIVE import_loop_overwriting(_, _, _, _)
import_loop_overwriting(todo, files, dry_run, report) ==
    IF todo = <<>> THEN [files |-> files, report |-> report]
    ELSE LET problem  == Head(todo)
             out_path == problem_id(problem)
         IN  import_loop_overwriting(
                 Tail(todo),
                 IF dry_run THEN files
                 ELSE [f \in DOMAIN files \cup {out_path} |->
                          IF f = out_path
                          THEN build_qmd(problem, problem.body)
                          ELSE files[f]],
                 dry_run,
                 Append(report, <<"generate", out_path>>))

\* import_archive, lines 234-247, over the problems iter_tex_problems
\* yields: a problem whose target exists is reported as skipped, any other
\* is reported as generated and, outside a dry run, written
RECURSIVE import_loop(_, _, _, _)
import_loop(todo, files, dry_run, report) ==
    IF todo = <<>> THEN [files |-> files, report |-> report]
    ELSE LET problem  == Head(todo)
             out_path == problem_id(problem)
         IN  IF out_path \in DOMAIN files
             THEN import_loop(Tail(todo), files, dry_run,
                              Append(report, <<"skip", out_path>>))
             ELSE import_loop(
                      Tail(todo),
                      IF dry_run THEN files
                      ELSE [f \in DOMAIN files \cup {out_path} |->
                               IF f = out_path
                               THEN build_qmd(problem, problem.body)
                               ELSE files[f]],
                      dry_run,
                      Append(report, <<"generate", out_path>>))

\* the archive: archive/<university>/<year>/<stem>.tex, with the body
\* extract_document_body and replace_includegraphics make of the file, and
\* whether the .pdf and the .jpg beside it exist.  TexFiles lists the
\* files in the order of sorted() on their paths.
TexFile(university, year, stem, pdf, body) ==
    [university |-> university, year |-> year, stem |-> stem,
     pdf |-> pdf, jpg |-> FALSE, body |-> body]

TexFiles ==
    << TexFile(<<"01_tokyo">>, <<"2", "0", "1", "4">>, <<"q1">>, TRUE,
               << <<"Prove">>, <<"sp">> >>),
       TexFile(<<"01_tokyo">>, <<"2", "0", "2", "0">>, <<"q1">>, FALSE,
               << <<"Prove">> >>),
       TexFile(<<"01_tokyo">>, <<"misc">>, <<"q1">>, FALSE, <<>>),
       TexFile(<<"09_kobe">>, <<"2", "0", "2", "0">>, <<"q1">>, FALSE,
               << <<"Prove">> >>) >>

\* the same archive with two more files, archive/01_tokyo/2020/a-q1.tex and
\* archive/01_tokyo/2020-a/q1.tex, again in the order of sorted(): a
\* directory or a file may carry any name
ArchiveListing ==
    << TexFiles[1],
       TexFile(<<"01_tokyo">>, <<"2", "0", "2", "0">>, <<"a", "-", "q1">>,
               FALSE, << <<"Prove">> >>),
       TexFiles[2],
       TexFile(<<"01_tokyo">>, <<"2", "0", "2", "0", "-", "a">>, <<"q1">>,
               FALSE, << <<"Prove">> >>),
       TexFiles[3],
       TexFiles[4] >>

\* iter_tex_problems(university, year): "" and None are no filter
iter_tex_problems(tree, university, year) ==
    SelectSeq(ArchiveListing,
              LAMBDA p : /\ p \in tree
                         /\ university = <<>> \/ p.university = university
                         /\ year = <<>> \/ p.year = year)

import_archive(tree, files, university, year, dry_run) ==
    import_loop(iter_tex_problems(tree, university, year), files, dry_run,
                <<>>)

----------------------------------------------------------------------------
(* The importer run on an archive and a problems/ directory.               *)

MaxArchive == 3

Range(s) == {s[i] : i \in 1..Len(s)}

Archives == {tree \in SUBSET Range(TexFiles) : Cardinality(tree) <= MaxArchive}

\* a document somebody wrote by hand
HandWritten == Text(<<Delim, IdLine, UnivCodeLine, Delim, WideBody>>, TRUE)

\* problems/ before the first import: empty, or holding a file under the
\* name the importer gives to a file of the archive
OneFile(name, t) == [f \in {name} |-> t]

FilesBeforeImport ==
    {NoFiles} \cup {OneFile(problem_id(TexFiles[i]), HandWritten) : i \in {1, 4}}

\* the values of --university and --year ("" when the option is absent)
UniversityOptions == {<<>>, <<"01_tokyo">>, <<"09_kobe">>}

YearOptions == {<<>>, <<"2", "0", "2", "0">>}

InitImport ==
    /\ text = Text(<<>>, FALSE)
    /\ before = text
    /\ op = "none"
    /\ ret = FALSE
    /\ arg = <<>>
    /\ archive \in Archives
    /\ problems \in FilesBeforeImport
    /\ solutions = {}
    /\ cache = None
    /\ out = None
    /\ job = None

\* archive_import.main: import_archive(args.university, args.year,
\* args.dry_run); the script runs in a process of its own and has no
\* access to the cache of the application
ImportArchiveWith(universities, years) ==
    \E university \in universities, year \in years, dry_run \in BOOLEAN :
        LET r == import_archive(archive, problems, university, year, dry_run)
        IN  /\ problems' = r.files
            /\ out' = [report |-> r.report, dry_run |-> dry_run,
                       university |-> university, year |-> year]
            /\ op' = "import"
            /\ UNCHANGED <<archive, solutions, cache, docvars, job>>

ImportArchive == ImportArchiveWith(UniversityOptions, YearOptions)

NextImport == ImportArchive

SpecImport == InitImport /\ [][NextImport]_vars

\* the files of the archive a run with these options goes through
Selected(tree, university, year) ==
    {p \in tree : /\ university = <<>> \/ p.university = university
                  /\ year = <<>> \/ p.year = year}

\* C12: an import never touches a file that exists, and a run that follows
\* a run with the same options that was not a dry run writes nothing and
\* reports each file of the archive it goes through, once, as skipped.
C12_ImportAtMostOnce ==
    [][ /\ op' = "import" =>
            \A f \in DOMAIN problems :
                f \in DOMAIN problems' /\ problems'[f] = problems[f]
        /\ ( /\ op = "import" /\ ~out.dry_run /\ op' = "import"
             /\ out'.university = out.university /\ out'.year = out.year )
           => /\ problems' = problems
              /\ \A i \in 1..Len(out'.report) : out'.report[i][1] = "skip"
              /\ {out'.report[i][2] : i \in 1..Len(out'.report)}
                     = {problem_id(p) :
                           p \in Selected(archive, out'.university, out'.year)}
              /\ Len(out'.report)
                     = Cardinality(Selected(archive, out'.university, out'.year))
      ]_vars

\* a run reported two files as skipped, both written by the importer,
\* beside a hand-written file it had left alone
C12_Witness ==
    /\ op = "import" /\ ~out.dry_run
    /\ Len(out.report) = 3
    /\ \A i \in 1..Len(out.report) : out.report[i][1] = "skip"
    /\ \E f \in DOMAIN problems : problems[f] = HandWritten
    /\ Cardinality({f \in DOMAIN problems : problems[f] # HandWritten}) = 2

\* the display labels
Labels == {UNIVERSITY_LABELS[c] : c \in DOMAIN UNIVERSITY_LABELS}

\* the files a run wrote
Generated ==
    {out.report[i][2] :
        i \in {k \in 1..Len(out.report) : out.report[k][1] = "generate"}}

\* the header of document t gives key k the value `value`, on one line
HeaderGives(t, k, value) ==
    /\ KeyCount(HeaderLines(t), k) = 1
    /\ \E i \in 1..Len(HeaderLines(t)) : HoldsValue(HeaderLines(t)[i], k, value)

\* C13 as claimed: every document an import wrote names its university by
\* a display label, whatever the directory of the archive is called.
C13_AlwaysALabel ==
    (op = "import" /\ ~out.dry_run) =>
        \A f \in Generated :
            /\ WellFormed(problems[f])
            /\ \E l \in Labels : HeaderGives(problems[f], "university", <<l>>)

\* C13: every document an import wrote has a header that names the
\* university once: by the display label of the directory when the
\* directory is one of the eight codes, by the name of the directory itself
\* when it is not.
C13_LabelOfKnownCode ==
    (op = "import" /\ ~out.dry_run) =>
        \A f \in Generated :
            \E p \in archive :
                /\ f = problem_id(p)
                /\ WellFormed(problems[f])
                /\ HeaderGives(problems[f], "university",
                       IF \E c \in Codes : p.university = <<c>>
                       THEN <<UNIVERSITY_LABELS[p.university[1]]>>
                       ELSE p.university)

\* one run wrote a document of a known code and one of a directory that is
\* no code
C13_Witness ==
    /\ op = "import" /\ ~out.dry_run
    /\ \E f, g \in Generated :
           /\ HeaderGives(problems[f], "university", <<"Tokyo-daigaku">>)
           /\ HeaderGives(problems[g], "university", <<"09_kobe">>)

----------------------------------------------------------------------------
(* yaml.safe_load on the text of a header, for the block mappings, flow    *)
(* lists, block lists, quoted and plain scalars the documents hold.  A     *)
(* value is [t, v]: t its type ("null", "str", "int", "list", "map", or    *)
(* "error" where the loader raises), v its text (a str or an int), its     *)
(* items (a list) or its entries (the mapping of the whole header).        *)

Value(t, v) == [t |-> t, v |-> v]

Null == Value("null", <<>>)

YamlError == Value("error", <<>>)

\* the number of ASCII spaces a line starts with
RECURSIVE Indent(_)
Indent(line) ==
    IF line = <<>> \/ Head(line) # "sp" THEN 0 ELSE 1 + Indent(Tail(line))

Dedent(line) == LStripSet(line, {"sp"})

\* the position of the colon that ends a key (a colon followed by a space
\* or by the end of the line), else 0
RECURSIVE KeyEnd(_, _)
KeyEnd(line, i) ==
    IF i > Len(line) THEN 0
    ELSE IF line[i] = ":" /\ (i = Len(line) \/ line[i + 1] = "sp") THEN i
    ELSE KeyEnd(line, i + 1)

\* str.split(sep) on one symbol
RECURSIVE SplitOn(_, _)
SplitOn(s, sep) ==
    IF \A i \in 1..Len(s) : s[i] # sep THEN <<s>>
    ELSE LET k == CHOOSE i \in 1..Len(s) :
                      s[i] = sep /\ \A j \in 1..(i - 1) : s[j] # sep
         IN  <<Slice(s, 1, k - 1)>> \o SplitOn(Slice(s, k + 1, Len(s)), sep)

IsQuoted(r) == Len(r) >= 2 /\ r[1] = "q" /\ r[Len(r)] = "q"

\* a scalar: "..." is a str, a run of ASCII digits an int, nothing is null
Scalar(r) ==
    IF r = <<>> THEN Null
    ELSE IF r[1] = "q"
         THEN IF IsQuoted(r) THEN Value("str", Slice(r, 2, Len(r) - 1))
              ELSE YamlError
    ELSE IF (\A i \in 1..Len(r) : r[i] \in AsciiDigits)
            /\ (Len(r) = 1 \/ r[1] # "0")
         THEN Value("int", r)
    ELSE Value("str", r)

\* the value after `key:` on the key's line: a flow list [a, b] or a scalar
Inline(r) ==
    IF r # <<>> /\ r[1] = "["
    THEN IF r[Len(r)] # "]" THEN YamlError
         ELSE LET inner == StripSet(Slice(r, 2, Len(r) - 1), {"sp"})
                  parts == IF inner = <<>> THEN <<>> ELSE SplitOn(inner, ",")
                  items == [i \in 1..Len(parts) |->
                               Scalar(StripSet(parts[i], {"sp"}))]
              IN  IF \E i \in 1..Len(items) : items[i].t = "error"
                  THEN YamlError
                  ELSE Value("list", [i \in 1..Len(items) |-> items[i].v])
    ELSE Scalar(r)

IsItem(d) == d = <<"-">> \/ startswith(d, <<"-", "sp">>)

\* the value of a key with nothing on its line: the block under it, a
\* list when its lines are `- item` lines, a mapping otherwise
Block(under) ==
    IF under = <<>> THEN Null
    ELSE IF \A i \in 1..Len(under) : IsItem(Dedent(under[i]))
         THEN Value("list",
                    [i \in 1..Len(under) |->
                        Scalar(StripSet(Tail(Dedent(under[i])), {"sp"})).v])
    ELSE Value("map", under)

\* the entry that starts on line i of ls: the value on the line of the key,
\* or the block of the more indented lines under it
Entry(ls, i, base) ==
    LET d     == Dedent(ls[i])
        k     == KeyEnd(d, 1)
        rest  == StripSet(Slice(d, k + 1, Len(d)), {"sp"})
        stop  == IF \E j \in (i + 1)..Len(ls) : Indent(ls[j]) <= base
                 THEN CHOOSE j \in (i + 1)..Len(ls) :
                          /\ Indent(ls[j]) <= base
                          /\ \A m \in (i + 1)..(j - 1) : Indent(ls[m]) > base
                 ELSE Len(ls) + 1
        under == Slice(ls, i + 1, stop - 1)
    IN  [key   |-> Slice(d, 1, k - 1),
         value |-> IF rest = <<>> THEN Block(under)
                   ELSE IF under # <<>> THEN YamlError
                   ELSE Inline(rest)]

\* yaml.safe_load(yaml_text), yaml_text being "\n".join(header)
\* the mapping of the entries ent (by the line they start on): of two
\* entries of one key the later one counts
Mapping(ent) ==
    LET last(k) == CHOOSE i \in DOMAIN ent :
                       /\ ent[i].key = k
                       /\ \A j \in DOMAIN ent : ent[j].key = k => j <= i
    IN  IF \E i \in DOMAIN ent : ent[i].value.t = "error" THEN YamlError
        ELSE Value("map", [k \in {ent[i].key : i \in DOMAIN ent} |->
                              ent[last(k)].value])

safe_load(header) ==
    LET ls   == SelectSeq(header, LAMBDA l : Dedent(l) # <<>>)
        base == Indent(ls[1])
        tops == {i \in 1..Len(ls) : Indent(ls[i]) = base}
        keys == {i \in tops : KeyEnd(Dedent(ls[i]), 1) > 1}
    IN  IF ls = <<>> THEN Null
        ELSE IF \E i \in 1..Len(ls) : Indent(ls[i]) < base THEN YamlError
        ELSE IF keys = tops
             THEN With([i \in keys |-> Entry(ls, i, base)], Mapping)
        ELSE IF keys # {} THEN YamlError
        ELSE IF \A i \in tops : IsItem(Dedent(ls[i]))
             THEN Value("list", [i \in 1..Len(ls) |-> Tail(Dedent(ls[i]))])
        ELSE IF Len(ls) = 1 THEN Scalar(Dedent(ls[1]))
        ELSE Value("str", Dedent(ls[1]))

----------------------------------------------------------------------------
(* app.py: the index of the collection.                                    *)

\* bool(value)
Truthy(value) ==
    CASE value.t = "null" -> FALSE
      [] value.t = "int"  -> value.v # <<"0">>
      [] value.t = "map"  -> DOMAIN value.v # {}
      [] OTHER            -> value.v # <<>>

\* meta.get(key)
Get(meta, key) == IF key \in DOMAIN meta.v THEN meta.v[key] ELSE Null

\* the digits int() reads, and their values
DigitValue(c) ==
    CHOOSE n \in 0..9 : c = AsciiOf[n + 1] \/ c = FullWidthOf[n + 1]

RECURSIVE IntOf(_)
IntOf(digits) ==
    IF digits = <<>> THEN 0
    ELSE 10 * IntOf(Slice(digits, 1, Len(digits) - 1))
             + DigitValue(digits[Len(digits)])

\* int(year_raw) inside try/except: Some(n) for the int n, else None.
\* An int is itself; a str is read after strip() as a run of digits, ASCII
\* or full-width; None, a list and a mapping raise TypeError
exam_year_of(year_raw) ==
    LET digits == IF year_raw.t = "str" THEN strip(year_raw.v) ELSE year_raw.v
    IN  IF year_raw.t \in {"int", "str"} /\ digits # <<>>
           /\ \A i \in 1..Len(digits) : IsDigit(digits[i])
        THEN Some(IntOf(digits))
        ELSE None

\* meta.get("fields") or [], a str made a list of one; the tags of a value
\* that is neither (an int, a mapping) are left out: no pool document has
\* one
fields_of(value) ==
    IF ~Truthy(value) THEN <<>>
    ELSE IF value.t = "str" THEN <<value.v>>
    ELSE IF value.t = "list" THEN value.v
    ELSE <<>>

\* the value, or the default when it is falsy, as text
OrElse(value, default) ==
    IF ~Truthy(value) THEN default
    ELSE IF value.t \in {"str", "int"} THEN value.v
    ELSE <<"object">>

\* the name of the solution file of a problem, without the suffix .qmd
SolutionName(pid) == pid \o <<"_solution">>

\* lines 46-122 for one file: "skip" where the loop continues, "raise"
\* where meta.get is called on a header that is no mapping, else the record
\* (the snippet, which no filter and no order reads, is left out);
\* index_record is lines 64-120, on what safe_load returned
index_record(stem, loaded, solved) ==
    LET meta == IF Truthy(loaded) THEN loaded ELSE Value("map", NoFiles)
        pid  == OrElse(Get(meta, <<"problem_id">>), stem)
    IN  IF loaded.t = "error" THEN [kind |-> "skip"]
        ELSE IF meta.t # "map" THEN [kind |-> "raise"]
        ELSE [kind |-> "record",
              problem_id   |-> pid,
              title        |-> OrElse(Get(meta, <<"title">>), pid),
              university   |-> OrElse(Get(meta, <<"university">>), <<>>),
              exam_year    |-> exam_year_of(Get(meta, <<"exam_year">>)),
              fields       |-> fields_of(Get(meta, <<"fields">>)),
              has_solution |-> SolutionName(pid) \in solved]

index_entry(stem, t, solved) ==
    LET lines == t.lines
        end   == FirstDelimStripped(lines, 2)
    IN  IF lines = <<>> \/ strip(lines[1]) # Delim \/ end = 0
        THEN [kind |-> "skip"]
        ELSE With(safe_load(Slice(lines, 2, end - 1)),
                  LAMBDA loaded : index_record(stem, loaded, solved))

\* the order of str: the symbols that names and header values start with,
\* by code point (the kanji labels come after ASCII), and sequences of
\* symbols in lexicographic order
SymbolOrder ==
    << "sp", "-", "0", "01_tokyo", "02_kyoto", "09_kobe", "1", "2", "3", "4",
       "5", "6", "7", "8", "9", "_solution", "misc", "nen", "p1", "p2",
       "problem3", "problem4", "q1", "u1",
       "Kyushu-daigaku", "Kyoto-daigaku", "Hokkaido-daigaku",
       "Nagoya-daigaku", "Osaka-daigaku", "Tokyo-daigaku",
       "Tokyo-kagaku-daigaku", "Tohoku-daigaku" >>

Rank(c) ==
    IF \E n \in 1..Len(SymbolOrder) : SymbolOrder[n] = c
    THEN CHOOSE n \in 1..Len(SymbolOrder) : SymbolOrder[n] = c
    ELSE 0

\* a < b for two str
RECURSIVE StrLess(_, _)
StrLess(a, b) ==
    IF b = <<>> THEN FALSE
    ELSE IF a = <<>> THEN TRUE
    ELSE IF Head(a) = Head(b) THEN StrLess(Tail(a), Tail(b))
    ELSE Rank(Head(a)) < Rank(Head(b))

\* sorted(names)
RECURSIVE SortedNames(_)
SortedNames(names) ==
    IF names = {} THEN <<>>
    ELSE LET first == CHOOSE n \in names :
                          \A m \in names : m = n \/ StrLess(n, m)
         IN  <<first>> \o SortedNames(names \ {first})

\* _load_problem_index(): the records of the files that are not skipped,
\* in the order of sorted(glob("*.qmd")); raised where an exception leaves
\* the function
load_problem_index(files, solved) ==
    With([name \in DOMAIN files |-> index_entry(name, files[name], solved)],
         LAMBDA entry :
             [raised |-> \E name \in DOMAIN files : entry[name].kind = "raise",
              items  |-> SelectSeq(
                             [i \in 1..Cardinality(DOMAIN files) |->
                                 entry[SortedNames(DOMAIN files)[i]]],
                             LAMBDA e : e.kind = "record")])

\* records shown with the has_solution they were built with
refresh_not(items, solved) == items

\* lines 369-375 of search: has_solution of every record of the index is
\* set from solutions/ (the records are those of the cache itself)
refresh_has_solution(items, solved) ==
    [i \in 1..Len(items) |->
        [items[i] EXCEPT !.has_solution =
            items[i].problem_id # <<>>
                /\ SolutionName(items[i].problem_id) \in solved]]

\* _parse_year(s)
parse_year(s) == exam_year_of(Value("str", s))

DEFAULT_YEAR_FROM == 2015

Max(a, b) == IF a >= b THEN a ELSE b

\* the smallest year of the index, None when no record has a year
year_min_of(items) ==
    LET years == {items[i].exam_year[1] :
                     i \in {k \in 1..Len(items) : items[k].exam_year # None}}
    IN  IF years = {} THEN None
        ELSE Some(CHOOSE y \in years : \A z \in years : y <= z)

\* lines 400-409: the lower bound of a query
year_from_unpinned(items, year_from_raw) ==
    IF year_from_raw # <<>> THEN parse_year(year_from_raw) ELSE None

year_from_of(items, year_from_raw) ==
    IF year_from_raw # <<>> THEN parse_year(year_from_raw)
    ELSE IF year_min_of(items) # None
         THEN Some(Max(DEFAULT_YEAR_FROM, year_min_of(items)[1]))
    ELSE None

\* lines 412-420: the record passes the filters
passes_without_years(item, q, year_from, year_to) ==
    /\ q.university = <<>> \/ item.university = q.university
    /\ q.field = <<>> \/ \E i \in 1..Len(item.fields) : item.fields[i] = q.field

passes(item, q, year_from, year_to) ==
    /\ q.university = <<>> \/ item.university = q.university
    /\ year_from = None
           \/ (item.exam_year # None /\ item.exam_year[1] >= year_from[1])
    /\ year_to = None
           \/ (item.exam_year # None /\ item.exam_year[1] <= year_to[1])
    /\ q.field = <<>> \/ \E i \in 1..Len(item.fields) : item.fields[i] = q.field

\* the sort key (university, exam_year or 0, problem_id) of x is less than
\* that of y
YearOrZero(item) == IF item.exam_year = None THEN 0 ELSE item.exam_year[1]

KeyLess(x, y) ==
    \/ StrLess(x.university, y.university)
    \/ /\ x.university = y.university
       /\ \/ YearOrZero(x) < YearOrZero(y)
          \/ /\ YearOrZero(x) = YearOrZero(y)
             /\ StrLess(x.problem_id, y.problem_id)

\* results in the order they were found
sort_not(results) == results

\* results.sort(key=..., reverse=True): descending, and stable (records of
\* equal keys stay in the order they were found)
RECURSIVE sort_reverse(_)
sort_reverse(results) ==
    IF results = <<>> THEN <<>>
    ELSE LET x == results[Len(results)]
             Place(front) ==
                 LET k == Cardinality({i \in 1..Len(front) :
                                          ~KeyLess(front[i], x)})
                 IN  Slice(front, 1, k) \o <<x>>
                         \o Slice(front, k + 1, Len(front))
         IN  With(sort_reverse(Slice(results, 1, Len(results) - 1)), Place)

\* the orders random.shuffle can leave a list in
Shuffles(s) ==
    {[i \in 1..Len(s) |-> s[f[i]]] :
        f \in {g \in [1..Len(s) -> 1..Len(s)] :
                  \A i, j \in 1..Len(s) : g[i] = g[j] => i = j}}

RANDOM_LIMIT == 10

\* lines 386-427 of search, on the index the request got: the results a
\* request with the arguments q may show
filtered(all_items, q, year_from, year_to) ==
    SelectSeq(all_items, LAMBDA item : passes(item, q, year_from, year_to))

search_results(all_items, q) ==
    LET Ordered(results) ==
            IF q.mode # "random" THEN {sort_reverse(results)}
            ELSE {Slice(r, 1, IF Len(r) < RANDOM_LIMIT THEN Len(r)
                              ELSE RANDOM_LIMIT) : r \in Shuffles(results)}
    IN  UNION {Ordered(filtered(all_items, q, year_from, year_to)) :
                  year_from \in {year_from_of(all_items, q.year_from)},
                  year_to \in {IF q.year_to # <<>> THEN parse_year(q.year_to)
                               ELSE None}}

\* get_problem_index(force_reload) with the cache c: what it returns, the
\* cache afterwards, whether it rescanned, whether the scan raised
Rebuilt(c, scan) ==
    IF scan.raised
    THEN [raised |-> TRUE, rebuilt |-> TRUE, cache |-> c, index |-> <<>>]
    ELSE [raised |-> FALSE, rebuilt |-> TRUE, cache |-> Some(scan.items),
          index |-> scan.items]

Cached(c) ==
    [raised |-> FALSE, rebuilt |-> FALSE, cache |-> c, index |-> c[1]]

\* a cache that takes an empty index for no index
get_problem_index_falsy(c, force_reload, files, solved) ==
    IF force_reload \/ c = None \/ c = Some(<<>>)
    THEN With(load_problem_index(files, solved), LAMBDA scan : Rebuilt(c, scan))
    ELSE Cached(c)

get_problem_index(c, force_reload, files, solved) ==
    IF force_reload \/ c = None
    THEN With(load_problem_index(files, solved), LAMBDA scan : Rebuilt(c, scan))
    ELSE Cached(c)

----------------------------------------------------------------------------
(* batch_generate_solutions.py                                             *)

\* read_meta(path): the same reading of the header as the index makes, with
\* (stem, None, None) where the index skips the file
read_meta(stem, t) ==
    With(index_entry(stem, t, {}),
         LAMBDA e : IF e.kind = "skip"
                    THEN [kind |-> "record", problem_id |-> stem,
                          exam_year |-> None, university |-> <<>>]
                    ELSE e)

should_target(exam_year, university, from_year, to_year, filter_university) ==
    /\ exam_year # None
    /\ from_year = None \/ exam_year[1] >= from_year[1]
    /\ to_year = None \/ exam_year[1] <= to_year[1]
    /\ filter_university = <<>> \/ university = filter_university

\* the files whose read_text raises (not UTF-8, not readable) and the
\* files for which the call of the external model raises
Failures(unreadable, failing) ==
    [unreadable |-> unreadable, failing |-> failing]

NoFailure == Failures({}, {})

\* lines 114-140, over the sorted files: the solutions afterwards, whether
\* an exception ended the run (read_text or meta.get in read_meta, or
\* generate_solution_qmd), and the files the run did not reach
RECURSIVE batch_loop(_, _, _, _, _)
batch_loop(todo, files, solved, a, fail) ==
    IF todo = <<>>
    THEN [solved |-> solved, raised |-> FALSE, left |-> <<>>]
    ELSE LET Raised == [solved |-> solved, raised |-> TRUE,
                        left |-> Tail(todo)]
             Step(m) ==
                 IF m.kind = "raise" THEN Raised
                 ELSE IF ~should_target(m.exam_year, m.university,
                                        a.from_year, a.to_year, a.university)
                         \/ SolutionName(m.problem_id) \in solved
                         \/ a.dry_run
                      THEN batch_loop(Tail(todo), files, solved, a, fail)
                 ELSE IF Head(todo) \in fail.failing THEN Raised
                 ELSE batch_loop(Tail(todo), files,
                                 solved \cup {SolutionName(m.problem_id)},
                                 a, fail)
         IN  IF Head(todo) \in fail.unreadable THEN Raised
             ELSE With(read_meta(Head(todo), files[Head(todo)]), Step)

\* the years a run covers: the ten years up to the current one when
\* neither --from-year nor --to-year is given
batch_generate_solutions(files, solved, a, current_year, fail) ==
    batch_loop(SortedNames(DOMAIN files), files, solved,
               IF a.from_year = None /\ a.to_year = None
               THEN [a EXCEPT !.from_year = Some(current_year - 9),
                              !.to_year = Some(current_year)]
               ELSE a,
               fail)

----------------------------------------------------------------------------
(* The collection: the requests of the web application and the scripts     *)
(* that write into problems/ beside it.                                    *)

\* upload, once image_to_qmd has returned qmd_text: the file of a new
\* problem_id (uuid4().hex[:12]) is written and the cache invalidated
Upload(names, texts, limit) ==
    \E name \in names \ DOMAIN problems, qmd_text \in texts :
        /\ Cardinality(DOMAIN problems) < limit
        /\ problems' = [f \in DOMAIN problems \cup {name} |->
                           IF f = name THEN qmd_text ELSE problems[f]]
        /\ cache' = None
        /\ op' = "upload"
        /\ out' = [problem_id |-> name]
        /\ UNCHANGED <<archive, solutions, docvars, job>>

\* update_meta(problem_id): a text that is not blank is saved as it is and
\* the cache invalidated
UpdateMeta(texts) ==
    \E name \in DOMAIN problems,
       qmd_text \in {t \in texts : ~AllBlank(t.lines)} :
        /\ problems' = [problems EXCEPT ![name] = qmd_text]
        /\ cache' = None
        /\ op' = "update_meta"
        /\ out' = [problem_id |-> name]
        /\ UNCHANGED <<archive, solutions, docvars, job>>

\* solve(problem_id), once generate_solution_qmd has returned: the solution
\* of a problem that exists is written and the cache invalidated
Solve(limit) ==
    \E name \in DOMAIN problems :
        /\ Cardinality(solutions \cup {SolutionName(name)}) <= limit
        /\ solutions' = solutions \cup {SolutionName(name)}
        /\ cache' = None
        /\ op' = "solve"
        /\ out' = [problem_id |-> name]
        /\ UNCHANGED <<archive, problems, docvars, job>>

\* normalize_university_labels.normalize_all(dry_run=False), run beside
\* the application: every file normalize_one changes is written
NormalizeAll ==
    /\ problems' = [f \in DOMAIN problems |-> normalize_one(problems[f]).text]
    /\ op' = "normalize_all"
    /\ out' = [changed |-> {f \in DOMAIN problems :
                               normalize_one(problems[f]).ret}]
    /\ UNCHANGED <<archive, solutions, cache, docvars, job>>

\* batch_generate_solutions.main, run beside the application, the calls
\* of generate_solution_qmd having returned
BatchSolutions(runs, limit) ==
    \E a \in runs :
        \E r \in {batch_generate_solutions(problems, solutions, a, a.now,
                                             NoFailure)} :
            /\ Cardinality(r.solved) <= limit
            /\ solutions' = r.solved
            /\ op' = "batch"
            /\ out' = [raised |-> r.raised]
            /\ UNCHANGED <<archive, problems, cache, docvars, job>>

\* search: the index is fetched, has_solution of its records refreshed in
\* place, and the records that pass the filters are shown; an exception of
\* the scan ends the request
Search(queries) ==
    \E q \in queries :
      \E got \in {get_problem_index(cache, q.reload, problems, solutions)} :
        \E all_items \in {refresh_has_solution(got.index, solutions)} :
            /\ op' = "search"
            /\ IF got.raised
               THEN /\ cache' = got.cache
                    /\ out' = [q |-> q, raised |-> TRUE, rebuilt |-> TRUE,
                               results |-> <<>>]
               ELSE /\ cache' = Some(all_items)
                    /\ \E results \in search_results(all_items, q) :
                           out' = [q |-> q, raised |-> FALSE,
                                   rebuilt |-> got.rebuilt,
                                   results |-> results]
            /\ UNCHANGED <<archive, problems, solutions, docvars, job>>

\* header lines of the documents of the collection
TokyoLine == Quoted("university", <<"Tokyo-daigaku">>)

Year2020Line == <<"exam_year", ":", "sp", "2", "0", "2", "0">>

Year2014Line == <<"exam_year", ":", "sp", "q", "2", "0", "1", "4", "q">>

UnclosedQuoteLine == <<"title", ":", "sp", "q", "problem4">>

\* documents: of 2020 with a tag, of 2014, without a year, with the code of
\* the university, with a header that is one plain scalar, with a header
\* the loader rejects, and without the closing delimiter
Tokyo2020 == Text(<<Delim, TokyoLine, Year2020Line, FieldsLine, Delim>>, TRUE)

Tokyo2014 == Text(<<Delim, TokyoLine, Year2014Line, Delim>>, TRUE)

TokyoNoYear == Text(<<Delim, TokyoLine, Delim, WideBody>>, TRUE)

Code2020 == Text(<<Delim, UnivCodeLine, Year2020Line, Delim>>, TRUE)

ScalarHeader == Text(<<Delim, Preface, Delim, WideBody>>, TRUE)

Unparsable == Text(<<Delim, UnclosedQuoteLine, Delim>>, TRUE)

Unclosed == Text(<<Delim, TokyoLine, Year2020Line>>, TRUE)

\* the arguments of a search request
Query(reload, university, year_from, year_to, field, mode) ==
    [reload |-> reload, university |-> university, year_from |-> year_from,
     year_to |-> year_to, field |-> field, mode |-> mode]

Plain == Query(FALSE, <<>>, <<>>, <<>>, <<>>, "search")

Reload == Query(TRUE, <<>>, <<>>, <<>>, <<>>, "search")

\* the bounds of the collection
MaxFiles == 2

MaxSolutions == 1

UploadNames == {<<"u1">>}

\* the texts the vision model and the edit form hand in
IndexTexts == {Tokyo2020, ScalarHeader, Unparsable}

IndexQueries == {Plain, Reload}

\* the year the scripts are run in
ThisYear == 2026

\* the options of a batch run, and the year it is run in
BatchRun(from_year, to_year, university, dry_run, now) ==
    [from_year |-> from_year, to_year |-> to_year, university |-> university,
     dry_run |-> dry_run, now |-> now]

BatchRuns ==
    {BatchRun(None, None, <<>>, FALSE, ThisYear)}
    \cup {BatchRun(Some(2015), None, <<"Tokyo-daigaku">>, dry_run, ThisYear) :
              dry_run \in BOOLEAN}

InitCollection(trees, collections) ==
    /\ text = Text(<<>>, FALSE)
    /\ before = text
    /\ op = "none"
    /\ ret = FALSE
    /\ arg = <<>>
    /\ archive \in trees
    /\ problems \in collections
    /\ solutions = {}
    /\ cache = None
    /\ out = None
    /\ job = None

InitIndex ==
    InitCollection({{}, {TexFiles[2]}},
                   {NoFiles} \cup {OneFile(<<"p1">>, t) :
                                      t \in {Tokyo2020, Code2020, Unclosed}})

NextIndex ==
    \/ Upload(UploadNames, IndexTexts, MaxFiles)
    \/ UpdateMeta(IndexTexts)
    \/ Solve(MaxSolutions)
    \/ BatchSolutions(BatchRuns, MaxSolutions)
    \/ NormalizeAll
    \/ ImportArchiveWith({<<>>}, {<<>>})
    \/ Search(IndexQueries)

SpecIndex == InitIndex /\ [][NextIndex]_vars

----------------------------------------------------------------------------
(* The index cache                                                         *)

\* a scan of the collection as it is now
Fresh == load_problem_index(problems, solutions)

\* C14: every mutation that can change an indexed field invalidates the
\* cache, so a search that is not a forced reload works on records equal
\* to a fresh build over the collection as it is.
C14_MutationsInvalidate ==
    (op = "search" /\ ~out.q.reload /\ ~out.raised)
        => cache = Some(Fresh.items)

\* records without their has_solution, which search refreshes in place
Unflagged(items) ==
    [i \in 1..Len(items) |-> [items[i] EXCEPT !.has_solution = FALSE]]

\* C15: a request that is not a forced reload and finds an index in the
\* cache gets the records of that index without a scan, whatever has
\* happened to the collection and also when the index is empty; a forced
\* reload, and a request that finds no index, scans the collection as it
\* is and puts the result in the cache; between requests the cache changes
\* only by being invalidated.
C15_Memoized ==
    [][ /\ (op' = "search" /\ ~out'.q.reload /\ cache # None)
            => /\ ~out'.rebuilt /\ ~out'.raised
               /\ Unflagged(cache'[1]) = Unflagged(cache[1])
        /\ (op' = "search" /\ (out'.q.reload \/ cache = None))
            => /\ out'.rebuilt
               /\ out'.raised \/ cache' = Some(Fresh.items)
        /\ op' # "search" => cache' \in {cache, None}
      ]_vars

\* a request was served an empty index from the cache although the
\* collection holds a document by now
C15_Witness ==
    /\ op = "search" /\ ~out.rebuilt
    /\ cache = Some(<<>>)
    /\ ~Fresh.raised /\ Fresh.items # <<>>

\* C16: every record a search shows has has_solution equal to whether the
\* file {problem_id}_solution.qmd exists in solutions/ at that moment.
C16_HasSolutionIsCurrent ==
    (op = "search" /\ ~out.raised) =>
        \A i \in 1..Len(out.results) :
            out.results[i].has_solution
                <=> (out.results[i].problem_id \o <<"_solution">>) \in solutions

\* a search served from a cache that is stale showed a record with a
\* solution
C16_Witness ==
    /\ op = "search" /\ ~out.rebuilt /\ ~out.raised
    /\ cache # Some(Fresh.items)
    /\ \E i \in 1..Len(out.results) : out.results[i].has_solution

\* the header of t is closed and its text loads as a mapping (or as
\* nothing, which is the empty mapping)
Indexable(t) ==
    /\ t.lines # <<>> /\ strip(t.lines[1]) = Delim
    /\ FirstDelimStripped(t.lines, 2) # 0
    /\ safe_load(Slice(t.lines, 2, FirstDelimStripped(t.lines, 2) - 1)).t
           \in {"map", "null"}

\* C19: a scan of the collection never fails, and gives one record for each
\* document whose header is closed and loads as a mapping.
C19_ScanNeverFails ==
    (op = "search" /\ out.rebuilt) =>
        /\ ~out.raised
        /\ Len(cache[1])
               = Cardinality({f \in DOMAIN problems : Indexable(problems[f])})

----------------------------------------------------------------------------
(* Queries: a collection of documents of two universities, of years on     *)
(* both sides of the baseline and without a year, and the requests made    *)
(* on it.                                                                  *)

Kyoto2020 ==
    Text(<<Delim, Quoted("university", <<"Kyoto-daigaku">>), Year2020Line,
           Delim>>, TRUE)

SearchTexts == {Tokyo2020, Tokyo2014, TokyoNoYear, Kyoto2020}

Tokyo == <<"Tokyo-daigaku">>

Y2014 == <<"2", "0", "1", "4">>

Y2020 == <<"2", "0", "2", "0">>

SearchQueries ==
    { Plain,
      Query(FALSE, Tokyo, <<>>, <<>>, <<>>, "search"),
      Query(FALSE, <<>>, <<>>, Y2020, <<>>, "search"),
      Query(FALSE, Tokyo, Y2014, Y2020, <<>>, "search"),
      Query(FALSE, Tokyo, Y2020, Y2020, <<>>, "search"),
      Query(FALSE, Tokyo, Y2014, Y2020, <<"sekibun">>, "search"),
      Query(FALSE, <<>>, Y2014, <<>>, <<>>, "search"),
      Query(FALSE, <<>>, <<"misc">>, <<>>, <<>>, "search"),
      Query(TRUE, <<>>, <<>>, <<>>, <<>>, "random") }

MaxSearchFiles == 3

InitSearch ==
    InitCollection({{}},
                   {NoFiles}
                   \cup {[f \in {<<"p1">>, <<"p2">>} |->
                             IF f = <<"p1">> THEN t1 ELSE t2] :
                            t1 \in SearchTexts, t2 \in SearchTexts})

NextSearch ==
    \/ Upload(UploadNames, SearchTexts, MaxSearchFiles)
    \/ UpdateMeta(SearchTexts)
    \/ Search(SearchQueries)

SpecSearch == InitSearch /\ [][NextSearch]_vars

\* the number a run of ASCII digits writes
RECURSIVE Number(_)
Number(digits) ==
    IF digits = <<>> THEN 0
    ELSE 10 * Number(SubSeq(digits, 1, Len(digits) - 1))
             + (CHOOSE n \in 0..9 : AsciiOf[n + 1] = digits[Len(digits)])

IsYear(s) == s # <<>> /\ \A i \in 1..Len(s) : s[i] \in AsciiDigits

\* results holds each record of the index that satisfies Hit, as often as
\* the index holds it
ExactlyTheHits(results, records, Hit(_)) ==
    \A r \in Range(results) \cup Range(records) :
        Cardinality({k \in 1..Len(results) : results[k] = r})
            = Cardinality({i \in 1..Len(records) : records[i] = r /\ Hit(r)})

----------------------------------------------------------------------------
(* solver.py: the heading of a generated solution.  generate_solution_qmd  *)
(* returns _strip_solution_heading(content) (line 86), and that text is    *)
(* stored as the solution; build_handout_qmd applies the function again to *)
(* the stored text (line 192).                                             *)

\* "## kaitou", the heading the function looks for (line 50)
SolutionHeading == <<"#", "#", "sp", "kai", "tou">>

\* "\n".join(lines) as a text: an empty last element is a final newline
join_lines(lines) ==
    IF lines = <<>> \/ lines = << <<>> >> THEN Text(<<>>, FALSE)
    ELSE IF lines[Len(lines)] = <<>>
    THEN Text(SubSeq(lines, 1, Len(lines) - 1), TRUE)
    ELSE Text(lines, FALSE)

\* s.lstrip("\n"): the leading empty lines go
lstrip_newlines(t) ==
    LET rest == LStripSet(t.lines, {<<>>})
    IN  IF rest = <<>> THEN Text(<<>>, FALSE) ELSE Text(rest, t.nl)

\* lines 32-55
strip_solution_heading(t) ==
    IF t.lines = <<>> THEN t
    ELSE LET lines == t.lines
             i     == FirstNonBlank(lines, 1)
         IN  IF i <= Len(lines) /\ startswith(lstrip(lines[i]), SolutionHeading)
             THEN LET j == FirstNonBlank(lines, i + 1)
                  IN  lstrip_newlines(join_lines(Slice(lines, j, Len(lines))))
             ELSE t

MaxSolutionLines == 3

HeadingLine == SolutionHeading

\* "## kaitou-rei", a heading that only starts with the one looked for
LongerHeadingLine == SolutionHeading \o <<"rei">>

IndentedHeadingLine == <<"sp">> \o SolutionHeading

AnswerLine == <<"x", "=", "1">>

SolutionLinePool ==
    {HeadingLine, LongerHeadingLine, IndentedHeadingLine, AnswerLine,
     <<>>, <<"fsp">>}

\* what the model may answer (line 82), as texts
SolutionTexts ==
    LET L == SeqsUpTo(SolutionLinePool, MaxSolutionLines)
    IN  {Text(l, TRUE) : l \in L \ {<<>>}}
        \cup {Text(l, FALSE) : l \in {x \in L : x = <<>> \/ x[Len(x)] # <<>>}}

InitStrip == InitOn(SolutionTexts)

\* one application of _strip_solution_heading to the solution text
StripSolutionHeading ==
    /\ text' = strip_solution_heading(text)
    /\ before' = text
    /\ op' = "strip"
    /\ UNCHANGED <<ret, arg>>
    /\ UNCHANGED colvars

NextStrip == StripSolutionHeading

SpecStrip == InitStrip /\ [][NextStrip]_vars

\* C20: stripping a text that was already stripped changes nothing:
\* strip(strip(t)) = strip(t) for every solution text t.
C20_StripIdempotent ==
    op = "strip" => strip_solution_heading(text) = text

----------------------------------------------------------------------------
(* solver.py: the handout of a problem and its solution.  "hspace_zw" is   *)
(* one \hspace{..zw} command, "begin_description" / "end_description" the  *)
(* two environment markers, "item[" the opening of \item[ and "]" its      *)
(* closing bracket; "orig_pdf:" and "orig_scan:" stand for the two link    *)
(* labels of lines 173.                                                    *)

rstrip(s) == RStripSet(s, Whitespace)

\* position of the last line that is not blank, 0 if there is none
RECURSIVE LastNonBlank(_, _)
LastNonBlank(lines, idx) ==
    IF idx >= 1 /\ strip(lines[idx]) = <<>>
    THEN LastNonBlank(lines, idx - 1) ELSE idx

\* str.strip() of a text: the blank lines at both ends go, and the white
\* space before the first and after the last character
strip_text(t) ==
    LET ls == t.lines
        a  == FirstNonBlank(ls, 1)
        b  == LastNonBlank(ls, Len(ls))
    IN  IF a > Len(ls) THEN Text(<<>>, FALSE)
        ELSE IF a = b THEN Text(<<strip(ls[a])>>, FALSE)
        ELSE Text(<<lstrip(ls[a])>> \o Slice(ls, a + 1, b - 1)
                      \o <<rstrip(ls[b])>>, FALSE)

\* lines 149-160: the lines after the header of the problem
RECURSIVE FirstDelimLine(_, _)
FirstDelimLine(lines, i) ==
    IF i <= Len(lines) /\ strip(lines[i]) # Delim
    THEN FirstDelimLine(lines, i + 1) ELSE i

problem_body_lines(problem_qmd) ==
    LET lines == problem_qmd.lines
    IN  IF lines # <<>> /\ strip(lines[1]) = Delim
        THEN LET i == FirstDelimLine(lines, 2)
             IN  IF i <= Len(lines) THEN Slice(lines, i + 1, Len(lines))
                 ELSE lines
        ELSE lines

PdfLabel == <<"orig_pdf:">>

ScanLabel == <<"orig_scan:">>

\* lines 167-175: the lines the filter keeps
kept(line) ==
    /\ strip(line) # Delim
    /\ ~startswith(strip(line), PdfLabel)
    /\ ~startswith(strip(line), ScanLabel)

\* lines 162-176: the body of the problem, cleaned
clean_problem_body(problem_qmd) ==
    LET body     == strip_text(join_lines(problem_body_lines(problem_qmd)))
        filtered_lines == SelectSeq(body.lines, kept)
    IN  strip_text(join_lines(filtered_lines))

\* lines 111-112: re.sub of every \hspace{..zw} by "\quad "
RECURSIVE sub_hspace(_)
sub_hspace(line) ==
    IF line = <<>> THEN <<>>
    ELSE IF Head(line) = "hspace_zw"
    THEN <<"quad", "sp">> \o sub_hspace(Tail(line))
    ELSE <<Head(line)>> \o sub_hspace(Tail(line))

\* position of the first x of s, 0 if there is none
FirstOf(s, x) ==
    IF \E i \in 1..Len(s) : s[i] = x
    THEN CHOOSE i \in 1..Len(s) : s[i] = x /\ \A k \in 1..(i - 1) : s[k] # x
    ELSE 0

\* lines 118-138: what one line becomes, as a list of zero or one line
sanitize_line(line) ==
    LET stripped == strip(line)
        close    == FirstOf(stripped, "]")
    IN  IF startswith(stripped, <<"begin_description">>) THEN <<>>
        ELSE IF startswith(stripped, <<"end_description">>) THEN <<>>
        ELSE IF startswith(stripped, <<"item[">>) /\ close # 0
        THEN LET label == strip(Slice(stripped, 2, close - 1))
                 body  == strip(Slice(stripped, close + 1, Len(stripped)))
             IN  IF label # <<>>
                 THEN << <<"<p><strong>">> \o label \o <<"</strong>", "sp">>
                             \o body \o <<"</p>">> >>
                 ELSE << <<"<p>">> \o body \o <<"</p>">> >>
        ELSE <<line>>

RECURSIVE sanitize_lines(_)
sanitize_lines(lines) ==
    IF lines = <<>> THEN <<>>
    ELSE sanitize_line(Head(lines)) \o sanitize_lines(Tail(lines))

\* lines 102-140
sanitize_tex_for_handout(t) ==
    IF t.lines = <<>> THEN t
    ELSE join_lines(sanitize_lines([i \in 1..Len(t.lines) |->
                                       sub_hspace(t.lines[i])]))

\* lines 88-99, stripped: the header every handout starts with
HANDOUT_YAML_HEADER ==
    << <<"---">>,
       <<"lang", ":", "sp", "ja">>,
       <<"format", ":">>,
       <<"sp", "sp", "html", ":">>,
       <<"sp", "sp", "sp", "sp", "theme", ":", "sp", "default">>,
       <<"sp", "sp", "sp", "sp", "toc", ":", "sp", "false">>,
       <<"sp", "sp", "sp", "sp", "number-sections", ":", "sp", "false">>,
       <<"sp", "sp", "sp", "sp", "css", ":", "sp", "handout-print.css">>,
       <<"---">> >>

\* the lines one element of parts gives to "\n".join(parts)
PartLines(t) ==
    IF t.lines = <<>> THEN << <<>> >>
    ELSE t.lines \o (IF t.nl THEN << <<>> >> ELSE <<>>)

ProblemOpening ==
    << <<>>, <<"<div class=main-wrap>">>, <<>>,
       <<"<section id=problem-section>">>, <<"#", "sp", "mondai">>, <<>> >>

SolutionOpening ==
    << <<"</section>">>, <<>>, <<"<section id=solution-section>">>,
       <<"#", "sp", "kai", "tou">>, <<>> >>

HandoutClosing == << <<"</section>">>, <<>>, <<"</div>">> >>

\* lines 178-196: the handout of a cleaned problem body and solution body
handout_of(body, solution) ==
    Text(HANDOUT_YAML_HEADER \o ProblemOpening \o PartLines(body)
             \o SolutionOpening \o PartLines(solution) \o HandoutClosing,
         TRUE)

\* line 192: the body of the solution
solution_body(solution_qmd) ==
    sanitize_tex_for_handout(strip_solution_heading(strip_text(solution_qmd)))

\* lines 143-196
build_handout_qmd(problem_qmd, solution_qmd) ==
    handout_of(sanitize_tex_for_handout(clean_problem_body(problem_qmd)),
               solution_body(solution_qmd))

\* app.py lines 483-510: the same cleaning, for the test sheet
extract_problem_body_for_test(problem_qmd) ==
    sanitize_tex_for_handout(clean_problem_body(problem_qmd))

MaxHandoutBody == 2

RuleLine == <<"---">>

PdfLine == <<"orig_pdf:", "sp", "link">>

SpacingLine == <<"a", "hspace_zw", "b">>

ItemLine == <<"item[", "(1)", "]", "sp", "Show">>

HandoutBodyPool ==
    {<<"Prove">>, RuleLine, PdfLine, SpacingLine, ItemLine, <<>>}

\* problem documents: with a header, with an unclosed header, without one
HandoutProblems ==
    LET B == SeqsUpTo(HandoutBodyPool, MaxHandoutBody)
    IN  {Text(<<Delim, IdLine, Delim>> \o b, TRUE) : b \in B}
        \cup {Text(<<Delim, IdLine>> \o b, TRUE) : b \in B}
        \cup {Text(b, TRUE) : b \in B \ {<<>>}}

\* solution documents: as generate_solution_qmd stores them, and with a
\* header of their own (the external model returns any text)
HandoutSolutions ==
    {Text(<<>>, FALSE),
     Text(<< <<"x", "=", "1">> >>, TRUE),
     Text(<<SolutionHeading, <<>>, <<"x", "=", "1">> >>, TRUE),
     Text(<< <<"begin_description">>, ItemLine, <<"end_description">> >>, FALSE),
     Text(<<Delim, IdLine, Delim, <<"x", "=", "1">> >>, TRUE)}

InitJob(jobs) ==
    /\ text = Text(<<>>, FALSE)
    /\ before = text
    /\ op = "none"
    /\ ret = FALSE
    /\ arg = <<>>
    /\ archive = {}
    /\ problems = NoFiles
    /\ solutions = {}
    /\ cache = None
    /\ out = None
    /\ job \in jobs

InitHandout ==
    InitJob({[problem_qmd |-> p, solution_qmd |-> s,
              cleaned |-> Text(<<>>, FALSE), handout |-> Text(<<>>, FALSE)] :
                 p \in HandoutProblems, s \in HandoutSolutions})

\* build_handout_qmd on the two files of one problem
BuildHandout ==
    /\ op' = "handout"
    /\ job' = [job EXCEPT
                 !.cleaned = clean_problem_body(job.problem_qmd),
                 !.handout = build_handout_qmd(job.problem_qmd,
                                               job.solution_qmd)]
    /\ UNCHANGED <<archive, problems, solutions, cache, out, docvars>>

NextHandout == BuildHandout

SpecHandout == InitHandout /\ [][NextHandout]_vars

\* the header lines of a document that has a header: its two delimiters
\* and the key lines between them
HeaderOf(t) ==
    IF WellFormed(t)
    THEN {l \in Range(Slice(t.lines, 1, Closing(t))) : ~Blank(l)}
    ELSE {}

\* C21: the handout is the fixed header, then the problem section, then
\* the solution section, and below the fixed header no line of it is a
\* line of the header of the problem or of the header of the solution.
C21_HeadersStripped ==
    op = "handout" =>
        LET c == job.handout.lines
            h == Len(HANDOUT_YAML_HEADER)
            p == h + Len(ProblemOpening)
        IN  /\ \E k \in (p + 1)..(Len(c) - Len(HandoutClosing)) :
                   c = HANDOUT_YAML_HEADER \o ProblemOpening
                           \o Slice(c, p + 1, k - 1) \o SolutionOpening
                           \o Slice(c, k + Len(SolutionOpening),
                                    Len(c) - Len(HandoutClosing))
                           \o HandoutClosing
            /\ \A i \in (h + 1)..Len(c) :
                   c[i] \notin HeaderOf(job.problem_qmd)
                                  \cup HeaderOf(job.solution_qmd)

\* a horizontal rule, as the filter recognises it
IsRule(line) == strip(line) = Delim

IsProvenance(line) ==
    startswith(strip(line), PdfLabel) \/ startswith(strip(line), ScanLabel)

\* the lines without the rules and blank lines at their end
RECURSIVE WithoutTrailingRules(_)
WithoutTrailingRules(lines) ==
    IF lines # <<>> /\ (IsRule(lines[Len(lines)]) \/ Blank(lines[Len(lines)]))
    THEN WithoutTrailingRules(SubSeq(lines, 1, Len(lines) - 1))
    ELSE lines

NotProvenance(line) == ~IsProvenance(line)

\* C22: the cleaned problem body is the body without its provenance lines
\* and without the rules at its end (white space at both ends aside); a
\* rule with content after it stays, and the order is kept.
C22_OnlyTrailingRulesGo ==
    op = "handout" =>
        LET body == strip_text(join_lines(problem_body_lines(job.problem_qmd)))
        IN  job.cleaned =
                strip_text(join_lines(WithoutTrailingRules(
                    SelectSeq(body.lines, NotProvenance))))

----------------------------------------------------------------------------
(* classifier.py and solver.py: the two wrappers of the external model.    *)
(* A reply of the external call is [kind, content]: "raise" when OpenAI()  *)
(* or chat.completions.create raises (no key, network, a response the      *)
(* client cannot read), "none" when message.content is None, "text" when   *)
(* it is the text content.  "[", "]" and "," are the characters the        *)
(* parser of the classifier splits on.                                     *)

Reply(kind, content) == [kind |-> kind, content |-> content]

\* s.split(sep): the pieces of s between the occurrences of sep
RECURSIVE Split(_, _)
Split(s, sep) ==
    LET i == FirstOf(s, sep)
    IN  IF i = 0 THEN <<s>>
        ELSE <<Slice(s, 1, i - 1)>> \o Split(Slice(s, i + 1, Len(s)), sep)

\* position of the last x of s, 0 if there is none
LastOf(s, x) ==
    IF \E i \in 1..Len(s) : s[i] = x
    THEN CHOOSE i \in 1..Len(s) :
             s[i] = x /\ \A k \in (i + 1)..Len(s) : s[k] # x
    ELSE 0

\* classifier.py line 85: item.strip().strip("\"'")
strip_item(item) == StripSet(strip(item), {"q", "a"})

\* classifier.py lines 79-86: the items of a line that starts with fields:
fields_of_line(line) ==
    LET open == FirstOf(line, "[")
    IN  IF open = 0 THEN <<>>
        ELSE LET right  == Slice(line, open + 1, Len(line))
                 close  == LastOf(right, "]")
                 inside == IF close = 0 THEN right
                           ELSE Slice(right, 1, close - 1)
                 items  == Split(inside, ",")
             IN  SelectSeq([i \in 1..Len(items) |-> strip_item(items[i])],
                           LAMBDA item : item # <<>>)

\* classifier.py lines 73-91: the known tags of a reply text
parse_fields(content) ==
    LET lines == SelectSeq([i \in 1..Len(content.lines) |->
                               strip(content.lines[i])],
                           LAMBDA line : line # <<>>)
        first == FirstKeyLine(lines, <<"fields", ":">>, 1)
        result == IF first = 0 THEN <<>> ELSE fields_of_line(lines[first])
        named  == SelectSeq(result, LAMBDA item : Len(item) = 1)
    IN  KnownTags([i \in 1..Len(named) |-> named[i][1]])

\* classifier.py lines 46-91: [raised, fields]
classify_reply(problem_qmd, reply) ==
    IF BodyIsEmpty(problem_qmd) THEN [raised |-> FALSE, fields |-> <<>>]
    ELSE IF reply.kind = "raise" THEN [raised |-> TRUE, fields |-> <<>>]
    ELSE IF reply.kind = "none" THEN [raised |-> FALSE, fields |-> <<>>]
    ELSE [raised |-> FALSE, fields |-> parse_fields(reply.content)]

\* solver.py line 84: the text returned when there is no content
GenerationFailed == Text(<< <<"(generation failed)">> >>, FALSE)

\* solver.py lines 58-86: [raised, solution]
generate_solution_qmd(problem_qmd, reply) ==
    IF reply.kind = "raise"
    THEN [raised |-> TRUE, solution |-> Text(<<>>, FALSE)]
    ELSE IF reply.kind = "none"
    THEN [raised |-> FALSE, solution |-> GenerationFailed]
    ELSE [raised |-> FALSE,
          solution |-> strip_solution_heading(reply.content)]

Raise == Reply("raise", Text(<<>>, FALSE))

NoContent == Reply("none", Text(<<>>, FALSE))

ClassifierReplies ==
    {Raise, NoContent}
    \cup {Reply("text", t) : t \in
            {Text(<<>>, FALSE),
             Text(<<Delim, FieldsLine, Delim>>, TRUE),
             Text(<< <<"fields", ":", "sp", "[", "q", "sekibun", "q", ",",
                       "sp", "a", "suuretsu", "a", ",", "unknownTag", "]">> >>,
                  FALSE),
             Text(<< <<"fields", ":", "sp", "sekibun">> >>, TRUE),
             Text(<< <<"fields", ":", "sp", "[", "sekibun">> >>, TRUE),
             Text(<< <<"Sorry">>, <<"sp", "fields", ":", "[", "]">> >>, TRUE)}}

SolverReplies ==
    {Raise, NoContent}
    \cup {Reply("text", t) : t \in
            {Text(<<>>, FALSE),
             Text(<< <<"x", "=", "1">> >>, TRUE),
             Text(<<SolutionHeading, <<>>, <<"x", "=", "1">> >>, TRUE),
             Text(<< <<>>, SolutionHeading >>, FALSE)}}

AIProblems ==
    {Text(<<>>, FALSE), Text(<<Delim, IdLine, Delim>>, TRUE)}
    \cup {Text(h \o b, nl) :
             h \in {<<>>, <<Delim, IdLine, Delim>>, <<Delim, IdLine>>},
             b \in {<< <<"Prove">> >>, << <<"sp">>, <<"Prove">> >>,
                    << <<"Prove">>, <<"5">> >>},
             nl \in BOOLEAN}

NotCalled == Reply("none", Text(<<>>, FALSE))

InitAI ==
    InitJob({[problem_qmd |-> p, reply |-> NotCalled, raised |-> FALSE,
              fields |-> <<>>, solution |-> Text(<<>>, FALSE)] :
                 p \in AIProblems})

\* classify_problem_fields(text), as assign_fields calls it
ClassifyProblemFields ==
    \E reply \in ClassifierReplies :
        \E r \in {classify_reply(job.problem_qmd, reply)} :
            /\ op' = "classify"
            /\ job' = [job EXCEPT !.reply = reply, !.raised = r.raised,
                                  !.fields = r.fields]
            /\ UNCHANGED <<archive, problems, solutions, cache, out, docvars>>

\* generate_solution_qmd(problem_qmd, problem_id), as solve and the batch
\* script call it
GenerateSolution ==
    \E reply \in SolverReplies :
        \E r \in {generate_solution_qmd(job.problem_qmd, reply)} :
            /\ op' = "generate"
            /\ job' = [job EXCEPT !.reply = reply, !.raised = r.raised,
                                  !.solution = r.solution]
            /\ UNCHANGED <<archive, problems, solutions, cache, out, docvars>>

NextAI == ClassifyProblemFields \/ GenerateSolution

SpecAI == InitAI /\ [][NextAI]_vars

\* C23: a failure of the external call does not leave the wrapper as an
\* exception: after a call that failed (the call raised, or the response
\* has no content) classify_problem_fields has returned the empty list and
\* generate_solution_qmd the placeholder text.
C23_FailureNeverEscapes ==
    /\ op \in {"classify", "generate"} => ~job.raised
    /\ (op = "classify" /\ job.reply.kind # "text") => job.fields = <<>>
    /\ (op = "generate" /\ job.reply.kind # "text") =>
           job.solution = GenerationFailed

----------------------------------------------------------------------------
(* The loops of the batch scripts over problems/, with the failures one    *)
(* document can cause: read_text raising for the file, and the external    *)
(* call raising for it.  None of the loops has a try around its body, so   *)
(* the exception ends the loop at that file.                               *)

\* position in order of the first file that fails, Len + 1 if none does
FirstFailure(order, Fails(_)) ==
    IF \E i \in 1..Len(order) : Fails(order[i])
    THEN CHOOSE i \in 1..Len(order) :
             Fails(order[i]) /\ \A k \in 1..(i - 1) : ~Fails(order[k])
    ELSE Len(order) + 1

\* for path in order: process(path), each call reading and writing its
\* own file only: the files afterwards, whether an exception ended the
\* loop, and the files the loop did not reach
pass_over(order, files, Fails(_), Process(_)) ==
    LET k == FirstFailure(order, Fails)
    IN  [files  |-> [f \in DOMAIN files |->
                        IF \E i \in 1..(k - 1) : order[i] = f
                        THEN Process(files[f]) ELSE files[f]],
         raised |-> k <= Len(order),
         left   |-> Slice(order, k + 1, Len(order))]

\* assign_fields.py lines 85-102 for one file, dry_run=False, the external
\* model answering with content
assign_fields_one(t, content) ==
    LET fields == classify_reply(t, Reply("text", content)).fields
    IN  IF fields = <<>> THEN t ELSE add_fields_to_yaml(t, fields)

MaxBatchFiles == 2

BatchNames == << <<"p1">>, <<"p2">>, <<"p3">> >>

NumberedCode2020 ==
    Text(<<Delim, UnivCodeLine, Year2020Line, Delim, NumberBody, <<"Prove">> >>,
         TRUE)

Misordered2020 ==
    Text(<<Delim, PnLine, Year2020Line, Delim, <<"Prove">> >>, TRUE)

BatchTexts == {NumberedCode2020, Misordered2020, Tokyo2020}

BatchCollections ==
    UNION {[{BatchNames[i] : i \in 1..n} -> BatchTexts] :
              n \in 1..MaxBatchFiles}

InitBatch ==
    /\ text = Text(<<>>, FALSE)
    /\ before = text
    /\ op = "none"
    /\ ret = FALSE
    /\ arg = <<>>
    /\ archive = {}
    /\ problems \in BatchCollections
    /\ solutions = {}
    /\ cache = None
    /\ out = None
    /\ job \in {[fail |-> Failures(u, f), raised |-> FALSE, left |-> <<>>] :
                   u, f \in SUBSET DOMAIN problems}

Unreadable(f) == f \in job.fail.unreadable

\* add_problem_number_and_clean.main: rglob lists the files in any order
NumberMain ==
    \E order \in Shuffles(SortedNames(DOMAIN problems)) :
        \E r \in {pass_over(order, problems, Unreadable,
                            LAMBDA t : number_process_file(t).text)} :
            /\ op' = "number_main"
            /\ problems' = r.files
            /\ job' = [job EXCEPT !.raised = r.raised, !.left = r.left]
            /\ UNCHANGED <<archive, solutions, cache, out, docvars>>

\* reorder_problem_number_after_exam_year.main
ReorderMain ==
    \E order \in Shuffles(SortedNames(DOMAIN problems)) :
        \E r \in {pass_over(order, problems, Unreadable,
                            LAMBDA t : reorder_process_file(t).text)} :
            /\ op' = "reorder_main"
            /\ problems' = r.files
            /\ job' = [job EXCEPT !.raised = r.raised, !.left = r.left]
            /\ UNCHANGED <<archive, solutions, cache, out, docvars>>

\* normalize_university_labels.normalize_all(dry_run=False)
NormalizeAllFiles ==
    \E order \in {SortedNames(DOMAIN problems)} :
        \E r \in {pass_over(order, problems, Unreadable,
                            LAMBDA t : normalize_one(t).text)} :
            /\ op' = "normalize_all"
            /\ problems' = r.files
            /\ job' = [job EXCEPT !.raised = r.raised, !.left = r.left]
            /\ UNCHANGED <<archive, solutions, cache, out, docvars>>

\* the reply of the external model to a problem it is asked about
FieldsReply == Text(<<Delim, FieldsLine, Delim>>, TRUE)

\* assign_fields.assign_fields(None, dry_run=False): the file is read,
\* then classified unless its body is empty, then written
AssignFields ==
    \E order \in {SortedNames(DOMAIN problems)} :
        \E r \in {pass_over(order, problems,
                            LAMBDA f : \/ f \in job.fail.unreadable
                                       \/ /\ f \in job.fail.failing
                                          /\ ~BodyIsEmpty(problems[f]),
                            LAMBDA t : assign_fields_one(t, FieldsReply))} :
            /\ op' = "assign_fields"
            /\ problems' = r.files
            /\ job' = [job EXCEPT !.raised = r.raised, !.left = r.left]
            /\ UNCHANGED <<archive, solutions, cache, out, docvars>>

\* batch_generate_solutions.batch_generate_solutions(None, None, None,
\* dry_run=False)
BatchGenerate ==
    \E r \in {batch_generate_solutions(problems, solutions,
                    BatchRun(None, None, <<>>, FALSE, ThisYear), ThisYear,
                    job.fail)} :
        /\ op' = "batch"
        /\ solutions' = r.solved
        /\ job' = [job EXCEPT !.raised = r.raised, !.left = r.left]
        /\ UNCHANGED <<archive, problems, cache, out, docvars>>

NextBatch ==
    \/ NumberMain
    \/ ReorderMain
    \/ NormalizeAllFiles
    \/ AssignFields
    \/ BatchGenerate

SpecBatch == InitBatch /\ [][NextBatch]_vars

BatchOps ==
    {"number_main", "reorder_main", "normalize_all", "assign_fields", "batch"}

\* C24: a pass over the collection is not ended by the failure of one
\* document: after a pass, no exception has left it and there is no file
\* of its listing that it did not reach.
C24_PassesTolerateFailure ==
    op \in BatchOps => ~job.raised /\ job.left = <<>>

----------------------------------------------------------------------------
(* archive_import.extract_document_body.  A TeX source is the sequence of  *)
(* its characters, "nl" being the newline: "begin_document" and            *)
(* "end_document" stand for the two markers, "%" for the comment sign,     *)
(* "bs2" for the line-break command (two backslashes), "{huge" for the     *)
(* opening of a {\huge group with the first white space after it, "}" for  *)
(* a closing brace, "flushleft" for \begin{flushleft} or \end{flushleft}   *)
(* and "setlength" for one whole \setlength{..}{..} command.               *)

NewlineSpace == Whitespace \cup {"nl"}

\* str.splitlines(): the pieces between the newlines, without a last
\* empty piece
splitlines(s) ==
    LET pieces == Split(s, "nl")
    IN  IF pieces[Len(pieces)] = <<>>
        THEN SubSeq(pieces, 1, Len(pieces) - 1) ELSE pieces

\* "\n".join(lines)
RECURSIVE join_nl(_)
join_nl(lines) ==
    IF lines = <<>> THEN <<>>
    ELSE IF Len(lines) = 1 THEN lines[1]
    ELSE lines[1] \o <<"nl">> \o join_nl(Tail(lines))

\* lines 117-123: what lies between the two markers, or the whole text
document_part(tex_text) ==
    LET b == FirstOf(tex_text, "begin_document")
        e == FirstOf(tex_text, "end_document")
    IN  IF b # 0 /\ e # 0 /\ e > b + 1
        THEN Slice(tex_text, b + 1, e - 1) ELSE tex_text

\* line 128: COMMENT_LINE matches
COMMENT_LINE(line) == startswith(LStripSet(line, NewlineSpace), <<"%">>)

\* lines 130-131: the line up to its first comment sign
before_comment(line) ==
    LET i == FirstOf(line, "%")
    IN  IF i = 0 THEN line ELSE Slice(line, 1, i - 1)

\* line 133: every line-break command becomes two newlines
RECURSIVE replace_breaks(_)
replace_breaks(line) ==
    IF line = <<>> THEN <<>>
    ELSE IF Head(line) = "bs2"
    THEN <<"nl", "nl">> \o replace_breaks(Tail(line))
    ELSE <<Head(line)>> \o replace_breaks(Tail(line))

\* line 135: HUGE_GROUP.sub(r"\1", line): a group that is closed is
\* replaced by what follows the white space after \huge
RECURSIVE HUGE_GROUP_sub(_)
HUGE_GROUP_sub(line) ==
    IF line = <<>> THEN <<>>
    ELSE LET rest  == LStripSet(Tail(line), NewlineSpace)
             close == FirstOf(rest, "}")
         IN  IF Head(line) = "{huge" /\ close # 0
             THEN Slice(rest, 1, close - 1)
                      \o HUGE_GROUP_sub(Slice(rest, close + 1, Len(rest)))
             ELSE <<Head(line)>> \o HUGE_GROUP_sub(Tail(line))

\* lines 126-136: the lines kept, each possibly holding newlines now
RECURSIVE cleaned_lines(_)
cleaned_lines(raw) ==
    IF raw = <<>> THEN <<>>
    ELSE IF COMMENT_LINE(Head(raw)) THEN cleaned_lines(Tail(raw))
    ELSE <<RStripSet(HUGE_GROUP_sub(replace_breaks(
               before_comment(Head(raw)))), NewlineSpace)>>
             \o cleaned_lines(Tail(raw))

\* lines 139-148: at most two empty entries in a row are kept
RECURSIVE normalize_blank(_, _)
normalize_blank(lines, empty_count) ==
    IF lines = <<>> THEN <<>>
    ELSE IF StripSet(Head(lines), NewlineSpace) = <<>>
    THEN (IF empty_count + 1 <= 2 THEN << <<>> >> ELSE <<>>)
             \o normalize_blank(Tail(lines), empty_count + 1)
    ELSE <<Head(lines)>> \o normalize_blank(Tail(lines), 0)

\* lines 153-154: the layout commands are deleted
without_layout(s) ==
    SelectSeq(s, LAMBDA c : c \notin {"flushleft", "setlength"})

\* lines 115-157
extract_document_body(tex_text) ==
    LET lines == cleaned_lines(splitlines(document_part(tex_text)))
        joined == join_nl(normalize_blank(lines, 0))
        t == without_layout(StripSet(joined, NewlineSpace))
    IN  IF t # <<>> /\ t[Len(t)] = "nl" THEN t ELSE t \o <<"nl">>

MaxTexLines == 3

TexLinePool ==
    {<<"begin_document">>, <<"end_document">>, <<"a">>, <<>>,
     <<"a", "bs2", "b">>, <<"bs2", "b">>, <<"sp", "%", "c">>,
     <<"{huge", "sp", "1", "}">>, <<"flushleft">>, <<"a", "setlength">>}

\* the sources _read_tex may return
TexTexts ==
    {join_nl(l) \o <<"nl">> : l \in SeqsUpTo(TexLinePool, MaxTexLines)}

InitExtract == InitJob({[tex_text |-> t, body |-> <<>>] : t \in TexTexts})

\* extract_document_body(tex_text), as import_archive calls it
ExtractDocumentBody ==
    /\ op' = "extract"
    /\ job' = [job EXCEPT !.body = extract_document_body(job.tex_text)]
    /\ UNCHANGED <<archive, problems, solutions, cache, out, docvars>>

NextExtract == ExtractDocumentBody

SpecExtract == InitExtract /\ [][NextExtract]_vars

\* a line without a character other than white space
BlankAt(lines, i) == StripSet(lines[i], Whitespace) = <<>>

\* C25: the body extract_document_body returns has no three blank lines
\* in a row.
C25_AtMostTwoBlankLines ==
    op = "extract" =>
        LET lines == splitlines(job.body)
        IN  \A i \in 1..(Len(lines) - 2) :
                ~(BlankAt(lines, i) /\ BlankAt(lines, i + 1)
                      /\ BlankAt(lines, i + 2))

----------------------------------------------------------------------------
(* app.py in a threaded host (app.run serves each request on a thread of   *)
(* its own): the handlers share _problem_index_cache and problems/, and    *)
(* their steps interleave.  job[h] is the handler h: its request, its      *)
(* position, the scan it holds, what get_problem_index returned to it.     *)
(* For the claims, job[h].valid is the set of the collections problems/    *)
(* has been since the call started, and job[h].early whether the call      *)
(* started while a mutation had written and not yet invalidated.           *)

Handlers == {"h1", "h2"}

Idle ==
    [request |-> "none", pc |-> "idle", qmd_text |-> Text(<<>>, FALSE),
     scan |-> <<>>, returned |-> None, valid |-> {}, early |-> FALSE]

\* a mutation has written its file and not yet invalidated the cache
MutationInFlight ==
    \E h \in Handlers : job[h].request = "update_meta"
                          /\ job[h].pc = "invalidate"

HandlerStep(h, after) ==
    /\ op' = "handler"
    /\ job' = [job EXCEPT ![h] = after]
    /\ UNCHANGED <<archive, solutions, out, docvars>>

\* search calls get_problem_index() (line 366)
StartSearch(h) ==
    /\ job[h].pc \in {"idle", "done"}
    /\ HandlerStep(h, [Idle EXCEPT !.request = "search", !.pc = "check",
                                   !.valid = {problems},
                                   !.early = MutationInFlight])
    /\ UNCHANGED <<problems, cache>>

\* line 139: the test of the cache
CheckCache(h) ==
    /\ job[h].pc = "check"
    /\ HandlerStep(h, [job[h] EXCEPT
                          !.pc = IF cache = None THEN "scan" ELSE "return"])
    /\ UNCHANGED <<problems, cache>>

\* line 140, right-hand side: _load_problem_index() reads the files
ScanFiles(h) ==
    /\ job[h].pc = "scan"
    /\ \E scan \in {load_problem_index(problems, solutions)} :
           HandlerStep(h, [job[h] EXCEPT !.pc = "store", !.scan = scan.items])
    /\ UNCHANGED <<problems, cache>>

\* line 140, the assignment to the global
StoreCache(h) ==
    /\ job[h].pc = "store"
    /\ cache' = Some(job[h].scan)
    /\ HandlerStep(h, [job[h] EXCEPT !.pc = "return"])
    /\ UNCHANGED problems

\* line 141: the global is read again and returned
ReturnCache(h) ==
    /\ job[h].pc = "return"
    /\ HandlerStep(h, [job[h] EXCEPT !.pc = "done", !.returned = cache])
    /\ UNCHANGED <<problems, cache>>

\* update_meta with a text that is not blank (lines 256-259)
StartUpdateMeta(h, texts) ==
    /\ job[h].pc \in {"idle", "done"}
    /\ \E qmd_text \in texts :
           HandlerStep(h, [Idle EXCEPT !.request = "update_meta",
                                       !.pc = "write", !.qmd_text = qmd_text])
    /\ UNCHANGED <<problems, cache>>

\* lines 261-262: the file is written
WriteFile(h, names) ==
    /\ job[h].pc = "write"
    /\ \E name \in names :
         \E files \in {[f \in DOMAIN problems \cup {name} |->
                          IF f = name THEN job[h].qmd_text ELSE problems[f]]} :
           /\ problems' = files
           /\ op' = "handler"
           /\ job' = [g \in Handlers |->
                        IF g = h THEN [job[h] EXCEPT !.pc = "invalidate"]
                        ELSE IF job[g].request = "search" /\ job[g].pc # "done"
                        THEN [job[g] EXCEPT !.valid = @ \cup {files}]
                        ELSE job[g]]
    /\ UNCHANGED <<archive, solutions, cache, out, docvars>>

\* line 265: invalidate_problem_index_cache()
InvalidateCache(h) ==
    /\ job[h].pc = "invalidate"
    /\ cache' = None
    /\ HandlerStep(h, [job[h] EXCEPT !.pc = "done"])
    /\ UNCHANGED problems

ConcurrentTexts == {Tokyo2020, Tokyo2014}

InitConcurrent ==
    /\ text = Text(<<>>, FALSE)
    /\ before = text
    /\ op = "none"
    /\ ret = FALSE
    /\ arg = <<>>
    /\ archive = {}
    /\ problems \in {OneFile(<<"p1">>, t) : t \in ConcurrentTexts}
    /\ solutions = {}
    /\ cache = None
    /\ out = None
    /\ job = [h \in Handlers |-> Idle]

NextConcurrent ==
    \/ \E h \in Handlers : StartSearch(h)
    \/ \E h \in Handlers : CheckCache(h)
    \/ \E h \in Handlers : ScanFiles(h)
    \/ \E h \in Handlers : StoreCache(h)
    \/ \E h \in Handlers : ReturnCache(h)
    \/ \E h \in Handlers : StartUpdateMeta(h, ConcurrentTexts)
    \/ \E h \in Handlers : WriteFile(h, {<<"p1">>})
    \/ \E h \in Handlers : InvalidateCache(h)

SpecConcurrent == InitConcurrent /\ [][NextConcurrent]_vars

\* C26: the records returned to a call of get_problem_index that started
\* when every mutation that had written its file had also invalidated the
\* cache are the index of the collection as it was at some time during the
\* call: they reflect every mutation that was complete when the call
\* started, also when a rebuild of another handler was under way during
\* the mutation.
C26_ReadsSeeCompletedMutations ==
    \A h \in Handlers :
        ( /\ job[h].request = "search" /\ job[h].pc = "done"
          /\ ~job[h].early /\ job[h].returned # None )
        => \E c \in job[h].valid :
               job[h].returned = Some(load_problem_index(c, solutions).items)

----------------------------------------------------------------------------
(* The importer run over the whole of an archive whose directories and     *)
(* files carry any name.                                                   *)

WholeArchives ==
    {tree \in SUBSET Range(ArchiveListing) : Cardinality(tree) <= MaxArchive}

InitWholeArchive ==
    /\ text = Text(<<>>, FALSE)
    /\ before = text
    /\ op = "none"
    /\ ret = FALSE
    /\ arg = <<>>
    /\ archive \in WholeArchives
    /\ problems \in FilesBeforeImport
    /\ solutions = {}
    /\ cache = None
    /\ out = None
    /\ job = None

\* python archive_import.py [--dry-run], no --university and no --year
ImportWholeArchive == ImportArchiveWith({<<>>}, {<<>>})

NextWholeArchive == ImportWholeArchive

SpecWholeArchive == InitWholeArchive /\ [][NextWholeArchive]_vars

\* C27: two files of the archive never have the same problem_id, and an
\* import of the whole archive leaves, for every file of the archive whose
\* name was free in problems/ before the run, the document built from that
\* file: no file is skipped for the document of another file.
C27_OwnDocument ==
    [][ (op' = "import" /\ ~out'.dry_run) =>
            /\ \A p, q \in archive : p # q => problem_id(p) # problem_id(q)
            /\ \A p \in archive :
                   \/ problem_id(p) \in DOMAIN problems
                   \/ /\ problem_id(p) \in DOMAIN problems'
                      /\ problems'[problem_id(p)] = build_qmd(p, p.body)
      ]_vars

----------------------------------------------------------------------------
(* The join of a document, its record and its solution by the name of the  *)
(* file.                                                                   *)

\* a document whose header names it p1
NamedP1 == Text(<<Delim, IdLine, TokyoLine, Year2020Line, Delim>>, TRUE)

\* what image_to_qmd returns and what the form of update_meta posts: a
\* header with no problem_id, or with one
JoinTexts == {Tokyo2020, NamedP1}

InitJoin ==
    InitCollection({{}, {TexFiles[2]}},
                   {NoFiles, OneFile(<<"p1">>, NamedP1),
                    OneFile(<<"p2">>, Tokyo2020)})

NextJoin ==
    \/ Upload(UploadNames, JoinTexts, MaxFiles)
    \/ UpdateMeta(JoinTexts)
    \/ Solve(MaxSolutions)
    \/ NormalizeAll
    \/ ImportArchiveWith({<<>>}, {<<>>})
    \/ Search({Plain})

SpecJoin == InitJoin /\ [][NextJoin]_vars

\* the record the index holds of problems/{name}.qmd, as search shows it
RecordOf(name) ==
    refresh_has_solution(<<index_entry(name, problems[name], solutions)>>,
                         solutions)[1]

\* C28: whatever requests and passes have run, the record of every indexed
\* file problems/{name}.qmd has problem_id = name, and search shows it with
\* has_solution exactly when solutions/{name}_solution.qmd has been
\* written, which is the file solve(name) writes.
C28_JoinKeyPreserved ==
    \A name \in DOMAIN problems :
        index_entry(name, problems[name], solutions).kind = "record"
            => /\ RecordOf(name).problem_id = name
               /\ RecordOf(name).has_solution
                      <=> SolutionName(name) \in solutions

====
